---- MODULE Spec2Model ----
(***************************************************************************)
(* Model of the service layer of personal-finance-cli: the relational      *)
(* store with its constraints, the unit of work (SQLAlchemy session) each  *)
(* service holds, and the operations of the transaction, budget and        *)
(* investment services.  Money is in integer cents.  An optional value is  *)
(* None (<<>>) or Some(v) (<<v>>).                                         *)
(***************************************************************************)
EXTENDS Integers, Sequences, FiniteSets, TLC

VARIABLES db, session, nextId, last, cli

vars == <<db, session, nextId, last, cli>>

----------------------------------------------------------------------------
(* Optional values (Python None / SQL NULL) *)

None == <<>>
Some(x) == <<x>>
Val(o) == o[1]

----------------------------------------------------------------------------
(* Bounds of the model *)

MaxId == 4
MaxBudgets == 2
MaxAllocations == 2
MaxTransactions == 2
MaxInvestments == 1
MaxExpenses == 6
TicksPerDay == 2
MaxDay == 1

----------------------------------------------------------------------------
(* The store: one set of rows per table (src/src/database/models.py) *)

EmptyStore ==
    [categories |-> {}, accounts |-> {}, transactions |-> {},
     budgets |-> {}, budget_categories |-> {}, investments |-> {}]

(* Category: name is UNIQUE *)
Category_ok(rows, row) ==
    \A c \in rows : c.id = row.id \/ c.name # row.name

(* Account: name carries no unique constraint *)
Account_ok(rows, row) == TRUE

(* Transaction: amount NOT NULL; category_id and account_id are foreign keys *)
Transaction_ok(store, row) ==
    /\ \E c \in store.categories : c.id = row.category_id
    /\ \E a \in store.accounts : a.id = row.account_id

(* uq_budget_period = UNIQUE(period_type, year, month).  In a UNIQUE       *)
(* constraint a NULL is distinct from every value, another NULL included,  *)
(* so rows whose month is NULL never collide.                              *)
uq_budget_period_mutant(rows, row) == TRUE
uq_budget_period(rows, row) ==
    \A b \in rows :
        \/ b.id = row.id
        \/ b.period_type # row.period_type
        \/ b.year # row.year
        \/ b.month = None
        \/ row.month = None
        \/ b.month # row.month

(* uq_budget_category = UNIQUE(budget_id, category_id), both NOT NULL *)
uq_budget_category_mutant(rows, row) == TRUE
uq_budget_category(rows, row) ==
    \A x \in rows :
        \/ x.id = row.id
        \/ x.budget_id # row.budget_id
        \/ x.category_id # row.category_id

(* BudgetCategory: the unique pair and the two foreign keys (the engine    *)
(* runs PRAGMA foreign_keys=ON, connection.py:43-47)                       *)
BudgetCategory_ok(store, row) ==
    /\ uq_budget_category(store.budget_categories, row)
    /\ \E b \in store.budgets : b.id = row.budget_id
    /\ \E c \in store.categories : c.id = row.category_id

(* Does the store accept writing `row` to `table`? *)
Accepts(store, table, row) ==
    CASE table = "categories" -> Category_ok(store.categories, row)
      [] table = "accounts" -> Account_ok(store.accounts, row)
      [] table = "transactions" -> Transaction_ok(store, row)
      [] table = "budgets" -> uq_budget_period(store.budgets, row)
      [] table = "budget_categories" -> BudgetCategory_ok(store, row)
      [] OTHER -> TRUE

----------------------------------------------------------------------------
(* The unit of work: Session(autocommit=False, autoflush=False).           *)
(* committed = what the database holds; working = the open transaction's   *)
(* view; pending = writes the session has not flushed yet; error = the     *)
(* exception in flight ("ok" when none).                                   *)

CleanSession == [pending |-> <<>>, dirty |-> FALSE]

Begin(store, sess) ==
    [committed |-> store,
     working |-> IF sess.dirty THEN sess.working ELSE store,
     pending |-> sess.pending,
     error |-> "ok"]

(* session.add(obj) / attribute assignment / session.delete(obj) *)
add(s, kind, table, row) ==
    IF s.error # "ok" THEN s
    ELSE [s EXCEPT !.pending = Append(@, [kind |-> kind, table |-> table, row |-> row])]

Write(store, w) ==
    CASE w.kind = "insert" ->
           [store EXCEPT ![w.table] = @ \cup {w.row}]
      [] w.kind = "update" ->
           [store EXCEPT ![w.table] = {x \in @ : x.id # w.row.id} \cup {w.row}]
      [] w.kind = "delete" ->
           [store EXCEPT ![w.table] = {x \in @ : x.id # w.row.id}]

RECURSIVE FlushPending(_)
FlushPending(s) ==
    IF s.pending = <<>> \/ s.error # "ok" THEN s
    ELSE LET w == Head(s.pending) IN
         IF w.kind # "delete" /\ ~Accepts(s.working, w.table, w.row)
         THEN [s EXCEPT !.error = "IntegrityError"]
         ELSE FlushPending([s EXCEPT !.working = Write(@, w),
                                     !.pending = Tail(@)])

(* session.flush(): the pending writes reach the open transaction.  `fault` *)
(* is a storage failure of the statement.                                   *)
flush(s, fault) ==
    IF s.error # "ok" THEN s
    ELSE IF fault THEN [s EXCEPT !.error = "StorageFailure"]
    ELSE FlushPending(s)

(* session.commit(): flush, then make the transaction durable *)
commit(s, fault) ==
    LET f == FlushPending(s) IN
    IF f.error # "ok" THEN f
    ELSE IF fault THEN [f EXCEPT !.error = "StorageFailure"]
    ELSE [f EXCEPT !.committed = f.working]

(* session.rollback(): the open transaction and the pending writes go *)
rollback(s) == [s EXCEPT !.working = s.committed, !.pending = <<>>]

(* `except Exception: self.db_session.rollback(); raise` *)
except_rollback_mutant(s) == s
except_rollback(s) == IF s.error = "ok" THEN s ELSE rollback(s)

(* What the session keeps between two calls of its service *)
SessionAfter(s) ==
    IF s.pending = <<>> /\ s.working = s.committed THEN CleanSession
    ELSE [pending |-> s.pending, dirty |-> TRUE, working |-> s.working]

(* db.query(T).filter(T.id == id).first(), as the set of rows found *)
RowById(rows, id) == {x \in rows : x.id = id}

(* A call's result: the session after it, what was raised, ids consumed *)
Result(s, used) ==
    [committed |-> s.committed, session |-> SessionAfter(s),
     outcome |-> s.error, used |-> IF s.error = "ok" THEN used ELSE 0]

----------------------------------------------------------------------------
(* BudgetService (src/src/services/budget_service.py) *)

(* _get_or_create_category: look the name up, insert and flush when absent. *)
(* Returns the session and the category's id.                               *)
Budget_get_or_create_category(s, name, id, fault) ==
    LET found == {c \in s.working.categories : c.name = name} IN
    IF s.error # "ok" THEN [s |-> s, id |-> id, used |-> 0]
    ELSE IF found # {}
    THEN [s |-> s, id |-> (CHOOSE c \in found : TRUE).id, used |-> 0]
    ELSE [s |-> flush(add(s, "insert", "categories", [id |-> id, name |-> name]),
                      fault),
          id |-> id, used |-> 1]

create_budget(store, sess, id, name, period_type, year, month, fault) ==
    LET budget == [id |-> id, name |-> name, period_type |-> period_type,
                   year |-> year, month |-> month, is_active |-> TRUE]
        s1 == add(Begin(store, sess), "insert", "budgets", budget)
        s2 == commit(s1, fault = "commit")
    IN Result(except_rollback(s2), 1)

add_budget_category(store, sess, id, budget_id, category_name, allocated_amount, fault) ==
    LET gc == Budget_get_or_create_category(Begin(store, sess), category_name, id,
                                            fault = "first")
        budget_category == [id |-> id + gc.used, budget_id |-> budget_id,
                            category_id |-> gc.id,
                            allocated_amount |-> allocated_amount]
        s1 == add(gc.s, "insert", "budget_categories", budget_category)
        s2 == commit(s1, fault = "commit")
    IN Result(except_rollback(s2), gc.used + 1)

(* update_budget(budget_id, name=, is_active=): a keyword left out or None  *)
(* changes nothing; the period columns are not among the allowed fields.    *)
update_budget(store, sess, budget_id, name, is_active, fault) ==
    LET s0 == Begin(store, sess)
        found == RowById(s0.working.budgets, budget_id)
        budget == CHOOSE b \in found : TRUE
        changed == [budget EXCEPT
                      !.name = IF name # None THEN Val(name) ELSE @,
                      !.is_active = IF is_active # None THEN Val(is_active) ELSE @]
        s2 == commit(add(s0, "update", "budgets", changed), fault = "commit")
    IN IF found = {}
       THEN [Result(s0, 0) EXCEPT !.outcome = "None"]
       ELSE Result(except_rollback(s2), 0)

delete_budget_mutant(store, sess, budget_id, fault) ==
    LET s0 == Begin(store, sess)
        found == RowById(s0.working.budgets, budget_id)
        budget == CHOOSE b \in found : TRUE
        s1 == IF fault = "first"
              THEN [s0 EXCEPT !.error = "StorageFailure"]
              ELSE s0
        s2 == commit(add(s1, "delete", "budgets", budget), fault = "commit")
    IN IF found = {}
       THEN [Result(s0, 0) EXCEPT !.outcome = "None"]
       ELSE Result(except_rollback(s2), 0)

(* delete_budget: bulk-delete the budget's allocations, then the budget *)
delete_budget(store, sess, budget_id, fault) ==
    LET s0 == Begin(store, sess)
        found == RowById(s0.working.budgets, budget_id)
        budget == CHOOSE b \in found : TRUE
        s1 == IF fault = "first"
              THEN [s0 EXCEPT !.error = "StorageFailure"]
              ELSE [s0 EXCEPT !.working.budget_categories =
                                 {x \in @ : x.budget_id # budget_id}]
        s2 == commit(add(s1, "delete", "budgets", budget), fault = "commit")
    IN IF found = {}
       THEN [Result(s0, 0) EXCEPT !.outcome = "None"]
       ELSE Result(except_rollback(s2), 0)

(* The `budgets create` command (src/src/cli/commands/budgets.py): it      *)
(* validates, fills the defaults from the clock `now` and calls the        *)
(* service; every exception ends the command with typer.Exit(1).           *)
cli_create_budget(store, sess, id, name, period_type, year, month, now, fault) ==
    LET exit == [Result(Begin(store, sess), 0) EXCEPT !.outcome = "ValidationError"]
        y == IF year = None THEN now.year ELSE Val(year)
        m == IF period_type = "monthly"
             THEN (IF month = None THEN Some(now.month) ELSE month)
             ELSE None
    IN IF period_type \notin {"monthly", "yearly"} THEN exit
       ELSE IF period_type = "monthly" /\ month # None
               /\ (Val(month) < 1 \/ Val(month) > 12) THEN exit
       ELSE create_budget(store, sess, id, name, period_type, y, m, fault)

----------------------------------------------------------------------------
(* TransactionService (src/src/services/transaction_service.py) *)

get_or_create_category(s, name, id, fault) ==
    LET found == {c \in s.working.categories : c.name = name} IN
    IF s.error # "ok" THEN [s |-> s, id |-> id, used |-> 0]
    ELSE IF found # {}
    THEN [s |-> s, id |-> (CHOOSE c \in found : TRUE).id, used |-> 0]
    ELSE [s |-> flush(add(s, "insert", "categories", [id |-> id, name |-> name]),
                      fault),
          id |-> id, used |-> 1]

get_or_create_account_mutant(s, name, id, fault) ==
    IF s.error # "ok" THEN [s |-> s, id |-> id, used |-> 0]
    ELSE [s |-> flush(add(s, "insert", "accounts", [id |-> id, name |-> name]),
                      fault),
          id |-> id, used |-> 1]
get_or_create_account(s, name, id, fault) ==
    LET found == {a \in s.working.accounts : a.name = name} IN
    IF s.error # "ok" THEN [s |-> s, id |-> id, used |-> 0]
    ELSE IF found # {}
    THEN [s |-> s, id |-> (CHOOSE a \in found : TRUE).id, used |-> 0]
    ELSE [s |-> flush(add(s, "insert", "accounts", [id |-> id, name |-> name]),
                      fault),
          id |-> id, used |-> 1]

(* create_transaction: transaction_date is `transaction_date or now` *)
create_transaction(store, sess, id, amount, transaction_type, category_name, account_name, transaction_date, now, fault) ==
    LET gc == get_or_create_category(Begin(store, sess), category_name, id,
                                     fault = "first")
        ga == get_or_create_account(gc.s, account_name, id + gc.used,
                                    fault = "second")
        transaction ==
            [id |-> id + gc.used + ga.used, amount |-> amount,
             transaction_type |-> transaction_type,
             category_id |-> gc.id, account_id |-> ga.id,
             transaction_date |-> IF transaction_date = None THEN now
                                  ELSE Val(transaction_date)]
        s2 == commit(add(ga.s, "insert", "transactions", transaction),
                     fault = "commit")
    IN Result(except_rollback(s2), gc.used + ga.used + 1)

(* update_transaction(transaction_id, **kwargs): kw holds each keyword as  *)
(* an optional; an allowed field left out or None keeps its value, and     *)
(* category_name / account_name are resolved when the keyword is present.  *)
update_transaction(store, sess, id, transaction_id, kw, fault) ==
    LET s0 == Begin(store, sess)
        found == RowById(s0.working.transactions, transaction_id)
        transaction == CHOOSE t \in found : TRUE
        t1 == [transaction EXCEPT
                 !.amount = IF kw.amount # None THEN Val(kw.amount) ELSE @,
                 !.transaction_type = IF kw.transaction_type # None
                                      THEN Val(kw.transaction_type) ELSE @,
                 !.transaction_date = IF kw.transaction_date # None
                                      THEN Val(kw.transaction_date) ELSE @]
        s1 == add(s0, "update", "transactions", t1)
        gc == IF kw.category_name # None
              THEN get_or_create_category(s1, Val(kw.category_name), id, fault = "first")
              ELSE [s |-> s1, id |-> t1.category_id, used |-> 0]
        t2 == [t1 EXCEPT !.category_id = gc.id]
        s2 == add(gc.s, "update", "transactions", t2)
        ga == IF kw.account_name # None
              THEN get_or_create_account(s2, Val(kw.account_name), id + gc.used,
                                         fault = "second")
              ELSE [s |-> s2, id |-> t2.account_id, used |-> 0]
        t3 == [t2 EXCEPT !.account_id = ga.id]
        s3 == commit(add(ga.s, "update", "transactions", t3), fault = "commit")
    IN IF found = {}
       THEN [Result(s0, 0) EXCEPT !.outcome = "None"]
       ELSE Result(except_rollback(s3), gc.used + ga.used)

delete_transaction(store, sess, transaction_id, fault) ==
    LET s0 == Begin(store, sess)
        found == RowById(s0.working.transactions, transaction_id)
        transaction == CHOOSE t \in found : TRUE
        s1 == commit(add(s0, "delete", "transactions", transaction), fault = "commit")
    IN IF found = {}
       THEN [Result(s0, 0) EXCEPT !.outcome = "None"]
       ELSE Result(except_rollback(s1), 0)

----------------------------------------------------------------------------
(* InvestmentService (src/src/services/investment_service.py) *)

(* create_investment: current_value is `current_value or initial_amount`,  *)
(* so a supplied zero is replaced like a missing one; purchase_date is     *)
(* `purchase_date or datetime.now()`.                                      *)
create_investment(store, sess, id, investment_type, initial_amount, current_value, purchase_date, now, fault) ==
    LET investment ==
            [id |-> id, investment_type |-> investment_type,
             initial_amount |-> initial_amount,
             current_value |-> IF current_value = None \/ Val(current_value) = 0
                               THEN initial_amount ELSE Val(current_value),
             purchase_date |-> IF purchase_date = None THEN now
                               ELSE Val(purchase_date),
             is_active |-> TRUE]
        s1 == commit(add(Begin(store, sess), "insert", "investments", investment),
                     fault = "commit")
    IN Result(except_rollback(s1), 1)

update_investment_value_mutant(store, sess, investment_id, current_value, fault) ==
    LET s0 == Begin(store, sess)
        found == RowById(s0.working.investments, investment_id)
        investment == CHOOSE i \in found : TRUE
        changed == [investment EXCEPT !.current_value = current_value,
                                  !.initial_amount = current_value]
        s1 == commit(add(s0, "update", "investments", changed), fault = "commit")
    IN IF found = {}
       THEN [Result(s0, 0) EXCEPT !.outcome = "None"]
       ELSE Result(except_rollback(s1), 0)

update_investment_value(store, sess, investment_id, current_value, fault) ==
    LET s0 == Begin(store, sess)
        found == RowById(s0.working.investments, investment_id)
        investment == CHOOSE i \in found : TRUE
        changed == [investment EXCEPT !.current_value = current_value]
        s1 == commit(add(s0, "update", "investments", changed), fault = "commit")
    IN IF found = {}
       THEN [Result(s0, 0) EXCEPT !.outcome = "None"]
       ELSE Result(except_rollback(s1), 0)

(* update_investment: the allowed fields whose value is not None *)
update_investment(store, sess, investment_id, current_value, is_active, fault) ==
    LET s0 == Begin(store, sess)
        found == RowById(s0.working.investments, investment_id)
        investment == CHOOSE i \in found : TRUE
        changed == [investment EXCEPT
                      !.current_value = IF current_value # None
                                        THEN Val(current_value) ELSE @,
                      !.is_active = IF is_active # None THEN Val(is_active) ELSE @]
        s1 == commit(add(s0, "update", "investments", changed), fault = "commit")
    IN IF found = {}
       THEN [Result(s0, 0) EXCEPT !.outcome = "None"]
       ELSE Result(except_rollback(s1), 0)

delete_investment(store, sess, investment_id, fault) ==
    LET s0 == Begin(store, sess)
        found == RowById(s0.working.investments, investment_id)
        investment == CHOOSE i \in found : TRUE
        s1 == commit(add(s0, "delete", "investments", investment), fault = "commit")
    IN IF found = {}
       THEN [Result(s0, 0) EXCEPT !.outcome = "None"]
       ELSE Result(except_rollback(s1), 0)

----------------------------------------------------------------------------
(* Inputs *)

Faults == {"none", "first", "second", "commit"}
PeriodTypes == {"monthly", "yearly"}
Years == {2025}
MonthArgs == {None, Some(0), Some(1), Some(12), Some(13)}
CategoryNames == {"food", "rent"}
AllocatedAmounts == {0, 50000}
Clock == {[year |-> 2025, month |-> 1]}
AccountNames == {"default", "visa"}
TransactionTypes == {"income", "expense", "transfer"}

(* Dates: an instant is a day number times TicksPerDay plus the time of    *)
(* day; a date compared with a DateTime column stands for its midnight.    *)
Days == 0..MaxDay
Midnight(day) == day * TicksPerDay
DateOf(instant) == instant \div TicksPerDay
Instants == 0..(Midnight(MaxDay + 1) - 1)
Now == {Midnight(MaxDay) + 1}

Ids(rows) == {x.id : x \in rows}

----------------------------------------------------------------------------
(* Queries (TransactionService.get_transactions / get_summary and          *)
(* ReportService._get_transactions_summary).  A query reads what the        *)
(* session sees.  Where SQL leaves the order of rows open, the operator     *)
(* yields every order the engine may deliver.                               *)

TopLimit == 5

Min(a, b) == IF a < b THEN a ELSE b

RECURSIVE SumAmounts(_)
SumAmounts(rows) ==
    IF rows = {} THEN 0
    ELSE LET t == CHOOSE x \in rows : TRUE
         IN t.amount + SumAmounts(rows \ {t})

(* func.sum(...).scalar(): NULL over no rows *)
func_sum(rows) == IF rows = {} THEN None ELSE Some(SumAmounts(rows))

(* `scalar() or Decimal('0')` *)
or_zero(v) == IF v = None \/ Val(v) = 0 THEN 0 ELSE Val(v)

(* ORDER BY key: the sequences in ascending key order; rows with equal     *)
(* keys come in any order.  key is a function on rows.                      *)
RECURSIVE order_by(_, _)
order_by(rows, key) ==
    IF rows = {} THEN {<<>>}
    ELSE LET first == {t \in rows : \A u \in rows : key[t] <= key[u]}
         IN UNION {{<<t>> \o rest : rest \in order_by(rows \ {t}, key)} :
                   t \in first}

(* OFFSET offset LIMIT limit, and a Python slice [:limit] *)
offset_limit_mutant(rows, offset, limit) == rows
offset_limit(rows, offset, limit) ==
    SubSeq(rows, offset + 1, Min(offset + limit, Len(rows)))

(* filter(transaction_date >= start_date), filter(transaction_date <=      *)
(* end_date): the bounds are dates, bound to the DateTime column as their  *)
(* midnight.                                                               *)
filter_dates(rows, start_date, end_date) ==
    {t \in rows :
        /\ start_date # None => t.transaction_date >= Midnight(Val(start_date))
        /\ end_date # None => t.transaction_date <= Midnight(Val(end_date))}

(* join(Category).filter(Category.name == category_name) *)
join_category(store, rows, category_name) ==
    {t \in rows : \E c \in store.categories :
        c.id = t.category_id /\ c.name = category_name}

(* join(Account).filter(Account.name == account_name) *)
join_account(store, rows, account_name) ==
    {t \in rows : \E a \in store.accounts :
        a.id = t.account_id /\ a.name = account_name}

filter_type(rows, transaction_type) ==
    {t \in rows : t.transaction_type = transaction_type}

OrderBys == {"date_desc", "date_asc", "amount_desc", "amount_asc"}

order_key(rows, order) ==
    [t \in rows |->
        CASE order = "date_desc" -> 0 - t.transaction_date
          [] order = "date_asc" -> t.transaction_date
          [] order = "amount_desc" -> 0 - t.amount
          [] order = "amount_asc" -> t.amount]

(* get_transactions: the possible result lists.  a holds the arguments.    *)
get_transactions(store, sess, a) ==
    LET w == Begin(store, sess).working
        q0 == w.transactions
        q1 == IF a.transaction_type # None
              THEN filter_type(q0, Val(a.transaction_type)) ELSE q0
        q2 == IF a.category_name # None
              THEN join_category(w, q1, Val(a.category_name)) ELSE q1
        q3 == IF a.account_name # None
              THEN join_account(w, q2, Val(a.account_name)) ELSE q2
        q4 == filter_dates(q3, a.start_date, a.end_date)
        q5 == IF a.min_amount # None
              THEN {t \in q4 : t.amount >= Val(a.min_amount)} ELSE q4
        q6 == IF a.max_amount # None
              THEN {t \in q5 : t.amount <= Val(a.max_amount)} ELSE q5
    IN {offset_limit(rows, a.offset, a.limit) :
            rows \in order_by(q6, order_key(q6, a.order_by))}

(* join(Category) ... group_by(Category.name) with sum(amount) as total *)
group_by_category(store, rows) ==
    LET named(n) == join_category(store, rows, n)
    IN {[name |-> c.name, amount |-> SumAmounts(named(c.name))] :
            c \in {c \in store.categories : named(c.name) # {}}}

(* get_summary: the possible results *)
get_summary_mutant(store, sess, start_date, end_date, account_name) ==
    LET w == Begin(store, sess).working
        q1 == filter_dates(w.transactions, start_date, end_date)
        query == IF account_name # None
                 THEN join_account(w, q1, Val(account_name)) ELSE q1
        income_total == or_zero(func_sum(filter_type(query, "income")))
        expense_total == or_zero(func_sum(query \ filter_type(query, "income")))
        groups == group_by_category(w, filter_type(query, "expense"))
    IN {[income_total |-> income_total, expense_total |-> expense_total,
         balance |-> income_total - expense_total,
         total_transactions |-> Cardinality(query),
         top_categories |-> offset_limit(top, 0, TopLimit)] :
            top \in order_by(groups, [g \in groups |-> 0 - g.amount])}
get_summary(store, sess, start_date, end_date, account_name) ==
    LET w == Begin(store, sess).working
        q1 == filter_dates(w.transactions, start_date, end_date)
        query == IF account_name # None
                 THEN join_account(w, q1, Val(account_name)) ELSE q1
        income_total == or_zero(func_sum(filter_type(query, "income")))
        expense_total == or_zero(func_sum(filter_type(query, "expense")))
        groups == group_by_category(w, filter_type(query, "expense"))
    IN {[income_total |-> income_total, expense_total |-> expense_total,
         balance |-> income_total - expense_total,
         total_transactions |-> Cardinality(query),
         top_categories |-> offset_limit(top, 0, TopLimit)] :
            top \in order_by(groups, [g \in groups |-> 0 - g.amount])}

(* query.all() without ORDER BY: the rows in rowid order (the order of     *)
(* insertion), or in the order of the index on transaction_date.           *)
all(rows) ==
    LET rowids == {t.id : t \in rows} \cup {0}
        width == 1 + CHOOSE m \in rowids : \A i \in rowids : i <= m
    IN order_by(rows, [t \in rows |-> t.id])
       \cup order_by(rows, [t \in rows |-> t.transaction_date * width + t.id])

(* expense_by_category[cat_name] = expense_by_category.get(cat_name, 0) +  *)
(* amount: a dict, as the sequence of its items in insertion order          *)
dict_add(items, name, amount) ==
    IF \E i \in 1..Len(items) : items[i].name = name
    THEN [i \in 1..Len(items) |->
            IF items[i].name = name
            THEN [items[i] EXCEPT !.amount = @ + amount] ELSE items[i]]
    ELSE Append(items, [name |-> name, amount |-> amount])

RECURSIVE expense_by_category(_, _)
expense_by_category(store, transactions) ==
    IF transactions = <<>> THEN <<>>
    ELSE LET n == Len(transactions)
             t == transactions[n]
             items == expense_by_category(store, SubSeq(transactions, 1, n - 1))
             category == CHOOSE c \in store.categories : c.id = t.category_id
         IN IF t.transaction_type = "expense"
            THEN dict_add(items, category.name, t.amount) ELSE items

(* sorted(items, key=amount, reverse=True): stable, equal amounts keep     *)
(* their order                                                             *)
RECURSIVE sorted_reverse(_)
sorted_reverse(items) ==
    IF items = <<>> THEN <<>>
    ELSE LET n == Len(items)
             i == CHOOSE i \in 1..n :
                    /\ \A j \in 1..n : items[j].amount <= items[i].amount
                    /\ \A j \in 1..(i - 1) : items[j].amount < items[i].amount
         IN <<items[i]>>
            \o sorted_reverse(SubSeq(items, 1, i - 1) \o SubSeq(items, i + 1, n))

RECURSIVE SumSeq(_)
SumSeq(amounts) ==
    IF amounts = <<>> THEN 0 ELSE Head(amounts) + SumSeq(Tail(amounts))

(* _get_transactions_summary: the possible results, each with the order    *)
(* in which the query delivered the rows                                   *)
get_transactions_summary(store, sess, start_date, end_date) ==
    LET w == Begin(store, sess).working
        amounts(transactions, type) ==
            [i \in 1..Len(transactions) |->
                IF transactions[i].transaction_type = type
                THEN transactions[i].amount ELSE 0]
        summary(transactions) ==
            LET income_total == SumSeq(amounts(transactions, "income"))
                expense_total == SumSeq(amounts(transactions, "expense"))
            IN [income_total |-> income_total, expense_total |-> expense_total,
                net_amount |-> income_total - expense_total,
                transactions_count |-> Len(transactions),
                top_expense_categories |->
                    offset_limit(sorted_reverse(expense_by_category(w, transactions)),
                                 0, TopLimit)]
    IN {[query |-> transactions, result |-> summary(transactions)] :
            transactions \in all(filter_dates(w.transactions, Some(start_date),
                                              Some(end_date)))}

----------------------------------------------------------------------------
(* Calendar: date(y, m, d) is the day number of a date, day 0 being         *)
(* 1 January 2025, so that Midnight(date(y, m, d)) is its first instant.    *)

IsLeap(y) == (y % 4 = 0 /\ y % 100 # 0) \/ y % 400 = 0

(* calendar.monthrange(y, m)[1] *)
DaysInMonth(y, m) ==
    CASE m \in {4, 6, 9, 11} -> 30
      [] m = 2 -> IF IsLeap(y) THEN 29 ELSE 28
      [] OTHER -> 31

DaysInYear(y) == IF IsLeap(y) THEN 366 ELSE 365

RECURSIVE DaysBeforeMonth(_, _)
DaysBeforeMonth(y, m) ==
    IF m <= 1 THEN 0 ELSE DaysBeforeMonth(y, m - 1) + DaysInMonth(y, m - 1)

RECURSIVE DaysBeforeYear(_)
DaysBeforeYear(y) ==
    IF y = 2025 THEN 0
    ELSE IF y > 2025 THEN DaysBeforeYear(y - 1) + DaysInYear(y - 1)
    ELSE DaysBeforeYear(y + 1) - DaysInYear(y)

(* date(y, m, d) raises ValueError unless this holds *)
ValidDate(y, m, d) == m \in 1..12 /\ d \in 1..DaysInMonth(y, m)

date(y, m, d) == DaysBeforeYear(y) + DaysBeforeMonth(y, m) + d - 1

(* d.year and d.month of a day number, over the years of the model *)
CalendarYears == 2024..2026

year_month(day) ==
    CHOOSE ym \in CalendarYears \X (1..12) :
        /\ date(ym[1], ym[2], 1) <= day
        /\ day <= date(ym[1], ym[2], DaysInMonth(ym[1], ym[2]))

----------------------------------------------------------------------------
(* Quotients.  A percentage is kept as the exact fraction num / den in     *)
(* lowest terms with den > 0; the rounding of a Decimal quotient and of    *)
(* float() is far below what the amounts of the model can tell apart.      *)

Abs(x) == IF x < 0 THEN 0 - x ELSE x

RECURSIVE GCD(_, _)
GCD(a, b) == IF b = 0 THEN a ELSE GCD(b, a % b)

Ratio(n, d) ==
    LET g == GCD(Abs(n), Abs(d))
        sign == IF d < 0 THEN 0 - 1 ELSE 1
    IN [num |-> sign * (n \div g), den |-> sign * (d \div g)]

Zero == Ratio(0, 1)

----------------------------------------------------------------------------
(* BudgetService queries *)

(* get_current_budget: query(...).first(), any row of the matching ones    *)
get_current_budget(store, sess, year, month) ==
    LET w == Begin(store, sess).working
        q1 == {b \in w.budgets : b.year = year /\ b.is_active}
        query == IF month # None /\ Val(month) # 0
                 THEN {b \in q1 : b.month = month}
                 ELSE {b \in q1 : b.month = None}
    IN IF query = {} THEN {None} ELSE {Some(b) : b \in query}

(* (spent_amount / allocated * 100) if allocated > 0 else 0 *)
percentage_used_mutant(spent_amount, allocated) ==
    IF allocated # 0 THEN Ratio(spent_amount * 100, allocated) ELSE Zero
percentage_used(spent_amount, allocated) ==
    IF allocated > 0 THEN Ratio(spent_amount * 100, allocated) ELSE Zero

(* The window of a budget: [start_date, end_date), as day numbers *)
budget_period(budget) ==
    LET month == IF budget.month = None \/ Val(budget.month) = 0
                 THEN 1 ELSE Val(budget.month)
    IN IF budget.period_type = "monthly"
       THEN [start_date |-> date(budget.year, month, 1),
             end_date |-> IF budget.month = Some(12)
                          THEN date(budget.year + 1, 1, 1)
                          ELSE date(budget.year, month + 1, 1)]
       ELSE [start_date |-> date(budget.year, 1, 1),
             end_date |-> date(budget.year + 1, 1, 1)]

(* The sum of a category's expenses in the window *)
spent_amount_mutant(store, budget_cat, period) ==
    or_zero(func_sum({t \in store.transactions :
        /\ t.category_id = budget_cat.category_id
        /\ t.transaction_type = "expense"
        /\ t.transaction_date >= Midnight(period.start_date)
        /\ t.transaction_date <= Midnight(period.end_date)}))
spent_amount(store, budget_cat, period) ==
    or_zero(func_sum({t \in store.transactions :
        /\ t.category_id = budget_cat.category_id
        /\ t.transaction_type = "expense"
        /\ t.transaction_date >= Midnight(period.start_date)
        /\ t.transaction_date < Midnight(period.end_date)}))

category_analysis(store, budget_cat, period) ==
    LET spent == spent_amount(store, budget_cat, period)
        allocated == budget_cat.allocated_amount
        category == CHOOSE c \in store.categories : c.id = budget_cat.category_id
    IN [category_name |-> category.name,
        allocated_amount |-> allocated,
        spent_amount |-> spent,
        remaining_amount |-> allocated - spent,
        percentage_used |-> percentage_used(spent, allocated),
        is_over_budget |-> spent > allocated]

RECURSIVE SumField(_, _)
SumField(items, field) ==
    IF items = <<>> THEN 0
    ELSE SumField(SubSeq(items, 1, Len(items) - 1), field)
         + items[Len(items)][field]

(* get_budget_analysis: the possible outcomes.  The allocations come from  *)
(* a query without ORDER BY, in any order.                                 *)
get_budget_analysis(store, sess, budget_id) ==
    LET w == Begin(store, sess).working
        found == RowById(w.budgets, budget_id)
        budget == CHOOSE b \in found : TRUE
        month == IF budget.month = None \/ Val(budget.month) = 0
                 THEN 1 ELSE Val(budget.month)
        period == budget_period(budget)
        budget_categories == {x \in w.budget_categories : x.budget_id = budget_id}
        analysis(rows) ==
            LET categories == [i \in 1..Len(rows) |->
                                  category_analysis(w, rows[i], period)]
                total_allocated == SumField(categories, "allocated_amount")
                total_spent == SumField(categories, "spent_amount")
            IN [budget |-> [id |-> budget.id, name |-> budget.name,
                            period_type |-> budget.period_type,
                            year |-> budget.year, month |-> budget.month],
                period |-> period,
                totals |-> [allocated_amount |-> total_allocated,
                            spent_amount |-> total_spent,
                            remaining_amount |-> total_allocated - total_spent,
                            percentage_used |->
                                percentage_used(total_spent, total_allocated)],
                categories |-> categories,
                is_over_budget |-> total_spent > total_allocated]
    IN IF found = {} THEN {[outcome |-> "ValueError", result |-> None]}
       ELSE IF budget.period_type = "monthly" /\ ~ValidDate(budget.year, month, 1)
       THEN {[outcome |-> "ValueError", result |-> None]}
       ELSE {[outcome |-> "ok", result |-> Some(analysis(rows))] :
                rows \in order_by(budget_categories,
                                  [x \in budget_categories |-> 0])}

----------------------------------------------------------------------------
(* InvestmentService queries *)

PerformersLimit == 5

(* a < b for two quotients *)
Less(a, b) == a.num * b.den < b.num * a.den

(* get_investments: ORDER BY purchase_date DESC *)
get_investments_mutant(store, sess, active_only) ==
    LET query == Begin(store, sess).working.investments
    IN order_by(query, [i \in query |-> 0 - i.purchase_date])

get_investments(store, sess, active_only) ==
    LET w == Begin(store, sess).working
        query == {i \in w.investments : active_only => i.is_active}
    IN order_by(query, [i \in query |-> 0 - i.purchase_date])

(* `(total_return / total_invested * 100) if total_invested > 0 else 0` *)
return_percentage(total_return, total_invested) ==
    IF total_invested > 0 THEN Ratio(total_return * 100, total_invested) ELSE Zero

(* by_type: a dict, as the sequence of its items in insertion order *)
RECURSIVE by_type(_)
by_type(investments) ==
    IF investments = <<>> THEN <<>>
    ELSE LET n == Len(investments)
             inv == investments[n]
             items == by_type(SubSeq(investments, 1, n - 1))
             counted(item) ==
                 [item EXCEPT !.count = @ + 1,
                              !.invested = @ + inv.initial_amount,
                              !.current_value = @ + inv.current_value,
                              !.return = @ + (inv.current_value - inv.initial_amount)]
         IN IF \E i \in 1..Len(items) : items[i].type = inv.investment_type
            THEN [i \in 1..Len(items) |->
                    IF items[i].type = inv.investment_type
                    THEN counted(items[i]) ELSE items[i]]
            ELSE Append(items, counted([type |-> inv.investment_type, count |-> 0,
                                    invested |-> 0, current_value |-> 0,
                                    return |-> 0]))

investments_with_return(investments) ==
    [i \in 1..Len(investments) |->
        LET inv == investments[i]
            return_amount == inv.current_value - inv.initial_amount
        IN [id |-> inv.id, type |-> inv.investment_type,
            invested |-> inv.initial_amount, current_value |-> inv.current_value,
            return_amount |-> return_amount,
            return_percentage |-> return_percentage(return_amount,
                                                    inv.initial_amount)]]

(* list.sort(key=return_percentage, reverse=True): stable *)
RECURSIVE sort_reverse(_)
sort_reverse(items) ==
    IF items = <<>> THEN <<>>
    ELSE LET n == Len(items)
             i == CHOOSE i \in 1..n :
                    /\ \A j \in 1..n : ~Less(items[i].return_percentage,
                                             items[j].return_percentage)
                    /\ \A j \in 1..(i - 1) : Less(items[j].return_percentage,
                                                  items[i].return_percentage)
         IN <<items[i]>>
            \o sort_reverse(SubSeq(items, 1, i - 1) \o SubSeq(items, i + 1, n))

(* items[-limit:] *)
last_items(items, limit) ==
    SubSeq(items, IF Len(items) > limit THEN Len(items) - limit + 1 ELSE 1,
           Len(items))

(* get_portfolio_summary: the possible results, one for each order in      *)
(* which get_investments delivers investments bought at the same instant   *)
get_portfolio_summary(store, sess) ==
    LET summary(investments) ==
            LET total_invested ==
                    SumSeq([i \in 1..Len(investments) |->
                               investments[i].initial_amount])
                current_value ==
                    SumSeq([i \in 1..Len(investments) |->
                               investments[i].current_value])
                total_return == current_value - total_invested
                sorted == sort_reverse(investments_with_return(investments))
            IN IF investments = <<>>
               THEN [total_invested |-> 0, current_value |-> 0, total_return |-> 0,
                     return_percentage |-> Zero, investments_count |-> 0,
                     by_type |-> <<>>, top_performers |-> <<>>,
                     worst_performers |-> <<>>]
               ELSE [total_invested |-> total_invested,
                     current_value |-> current_value,
                     total_return |-> total_return,
                     return_percentage |->
                         return_percentage(total_return, total_invested),
                     investments_count |-> Len(investments),
                     by_type |-> by_type(investments),
                     top_performers |-> offset_limit(sorted, 0, PerformersLimit),
                     worst_performers |->
                         IF Len(sorted) > PerformersLimit
                         THEN last_items(sorted, PerformersLimit) ELSE <<>>]
    IN {summary(investments) : investments \in get_investments(store, sess, TRUE)}

(* get_investment_performance on the day `today`.  The amounts are         *)
(* Decimals: a Decimal quotient by zero raises, and so does a Decimal      *)
(* raised to the float 365.25 / holding_days.                              *)
get_investment_performance(store, sess, investment_id, today) ==
    LET w == Begin(store, sess).working
        found == RowById(w.investments, investment_id)
        investment == CHOOSE i \in found : TRUE
        total_return == investment.current_value - investment.initial_amount
        holding_days == today - DateOf(investment.purchase_date)
        performance ==
            [total_return |-> total_return,
             return_percentage |->
                 return_percentage(total_return, investment.initial_amount),
             annualized_return |-> Zero,
             holding_days |-> holding_days]
    IN IF found = {} THEN [outcome |-> "ValueError", result |-> None]
       ELSE IF holding_days > 0
       THEN [outcome |-> IF investment.initial_amount # 0 THEN "TypeError"
                         ELSE IF investment.current_value # 0
                         THEN "DivisionByZero" ELSE "InvalidOperation",
             result |-> None]
       ELSE [outcome |-> "ok", result |-> Some(performance)]

----------------------------------------------------------------------------
(* ReportService (src/src/services/report_service.py).  `fault` names the  *)
(* block of a report whose query fails with a storage error.  A block that *)
(* returns None or the empty dict on error is None here.                   *)

calculate_percentage_change_mutant(old_value, new_value) ==
    IF old_value = 0 THEN IF new_value > 0 THEN Ratio(100, 1) ELSE Zero
    ELSE Ratio((new_value - old_value) * 100, Abs(old_value))

calculate_percentage_change(old_value, new_value) ==
    IF old_value = 0 THEN IF new_value > 0 THEN Ratio(100, 1) ELSE Zero
    ELSE Ratio((new_value - old_value) * 100, old_value)

(* _get_transactions_summary between two dates, the results alone *)
transactions_summary(store, sess, start_date, end_date) ==
    {r.result : r \in get_transactions_summary(store, sess, start_date, end_date)}

month_summary(store, sess, year, month) ==
    transactions_summary(store, sess, date(year, month, 1),
                         date(year, month, DaysInMonth(year, month)))

(* _get_budget_analysis: `except Exception: return None` *)
Report_get_budget_analysis(store, sess, year, month, fault) ==
    IF fault = "budget" THEN {None}
    ELSE UNION {IF budget = None THEN {None}
                ELSE {IF r.outcome = "ok" THEN r.result ELSE None :
                         r \in get_budget_analysis(store, sess, Val(budget).id)} :
                   budget \in get_current_budget(store, sess, year, Some(month))}

(* _get_investments_summary: `except Exception: return {}` *)
get_investments_summary(store, sess, fault) ==
    IF fault = "investments" THEN {None}
    ELSE {Some(r) : r \in get_portfolio_summary(store, sess)}

trend(change) ==
    IF Less(Zero, change) THEN "up" ELSE IF Less(change, Zero) THEN "down"
    ELSE "stable"

previous_month_mutant(year, month) ==
    [year |-> year, month |-> IF month = 1 THEN 12 ELSE month - 1]

(* if month == 1: prev_year, prev_month = year - 1, 12 *)
previous_month(year, month) ==
    IF month = 1 THEN [year |-> year - 1, month |-> 12]
    ELSE [year |-> year, month |-> month - 1]

get_monthly_trends(store, sess, year, month) ==
    LET prev_year == previous_month(year, month).year
        prev_month == previous_month(year, month).month
        trends(current_data, prev_data) ==
            LET income_change ==
                    calculate_percentage_change(prev_data.income_total,
                                                current_data.income_total)
                expense_change ==
                    calculate_percentage_change(prev_data.expense_total,
                                                current_data.expense_total)
            IN [previous_month |-> [year |-> prev_year, month |-> prev_month,
                                    data |-> prev_data],
                current_month |-> [year |-> year, month |-> month,
                                   data |-> current_data],
                changes |-> [income_change_percentage |-> income_change,
                             expense_change_percentage |-> expense_change,
                             income_trend |-> trend(income_change),
                             expense_trend |-> trend(expense_change)]]
    IN {trends(current_data, prev_data) :
            current_data \in month_summary(store, sess, year, month),
            prev_data \in month_summary(store, sess, prev_year, prev_month)}

(* _get_yearly_growth_analysis: `except Exception: return {}` *)
get_yearly_growth_analysis(store, sess, year, fault) ==
    LET growth(current_data, prev_data) ==
            [previous_year |-> prev_data,
             current_year |-> current_data,
             growth_rates |->
                 [income_growth |->
                      calculate_percentage_change(prev_data.income_total,
                                                  current_data.income_total),
                  expense_growth |->
                      calculate_percentage_change(prev_data.expense_total,
                                                  current_data.expense_total),
                  net_growth |->
                      calculate_percentage_change(prev_data.net_amount,
                                                  current_data.net_amount)]]
    IN IF fault = "growth" THEN {None}
       ELSE {Some(growth(current_data, prev_data)) :
                current_data \in transactions_summary(store, sess,
                                                      date(year, 1, 1),
                                                      date(year, 12, 31)),
                prev_data \in transactions_summary(store, sess,
                                                   date(year - 1, 1, 1),
                                                   date(year - 1, 12, 31))}

(* generate_monthly_report: the possible outcomes *)
generate_monthly_report(store, sess, year, month, fault) ==
    IF ~ValidDate(year, month, 1)
    THEN {[outcome |-> "ValueError", result |-> None]}
    ELSE IF fault \in {"transactions", "trends"}
    THEN {[outcome |-> "StorageFailure", result |-> None]}
    ELSE {[outcome |-> "ok",
           result |-> Some([period |-> [year |-> year, month |-> month],
                            transactions |-> transactions_data,
                            budget |-> budget_data,
                            investments |-> investments_data,
                            trends |-> trends_data])] :
             transactions_data \in month_summary(store, sess, year, month),
             budget_data \in Report_get_budget_analysis(store, sess, year, month,
                                                        fault),
             investments_data \in get_investments_summary(store, sess, fault),
             trends_data \in get_monthly_trends(store, sess, year, month)}

(* for month in range(1, 13): the breakdowns of the months up to `month` *)
RECURSIVE monthly_analysis(_, _, _, _)
monthly_analysis(store, sess, year, month) ==
    IF month = 0 THEN {<<>>}
    ELSE {Append(months, [month |-> month, data |-> month_data]) :
             months \in monthly_analysis(store, sess, year, month - 1),
             month_data \in month_summary(store, sess, year, month)}

(* generate_yearly_report: the possible outcomes *)
generate_yearly_report(store, sess, year, fault) ==
    IF fault = "transactions"
    THEN {[outcome |-> "StorageFailure", result |-> None]}
    ELSE {[outcome |-> "ok",
           result |-> Some([period |-> [year |-> year],
                            annual_summary |-> transactions_data,
                            monthly_breakdown |-> monthly_breakdown,
                            investments |-> investments_data,
                            growth_analysis |-> growth_analysis])] :
             transactions_data \in transactions_summary(store, sess,
                                                        date(year, 1, 1),
                                                        date(year, 12, 31)),
             monthly_breakdown \in monthly_analysis(store, sess, year, 12),
             investments_data \in get_investments_summary(store, sess, fault),
             growth_analysis \in get_yearly_growth_analysis(store, sess, year,
                                                            fault)}

Granularities == {"daily", "weekly", "monthly"}

(* period_end and next_date of the bucket that starts on current_date *)
period_end_mutant(current_date, granularity) ==
    CASE granularity = "daily" -> current_date
      [] granularity = "weekly" -> current_date + 7
      [] OTHER ->
           LET ym == year_month(current_date)
           IN IF ym[2] = 12 THEN date(ym[1] + 1, 1, 1) - 1
              ELSE date(ym[1], ym[2] + 1, 1) - 1

period_end(current_date, granularity) ==
    CASE granularity = "daily" -> current_date
      [] granularity = "weekly" -> current_date + 6
      [] OTHER ->
           LET ym == year_month(current_date)
           IN IF ym[2] = 12 THEN date(ym[1] + 1, 1, 1) - 1
              ELSE date(ym[1], ym[2] + 1, 1) - 1

next_date(current_date, granularity) ==
    CASE granularity = "daily" -> current_date + 1
      [] granularity = "weekly" -> current_date + 7
      [] OTHER ->
           LET ym == year_month(current_date)
           IN IF ym[2] = 12 THEN date(ym[1] + 1, 1, 1)
              ELSE date(ym[1], ym[2] + 1, 1)

(* sum(t.amount for t in period_transactions if t.transaction_type == type) *)
period_total(period_transactions, type) ==
    SumAmounts({t \in period_transactions : t.transaction_type = type})

(* running_balance += period_net *)
running_balance_mutant(balance, period_net) == period_net
running_balance(balance, period_net) == balance + period_net

(* `while current_date <= end_date:` the buckets from current_date on, the *)
(* balance so far being `balance`                                          *)
RECURSIVE cash_flow_data(_, _, _, _, _)
cash_flow_data(transactions, current_date, end_date, granularity, balance) ==
    IF current_date > end_date THEN <<>>
    ELSE LET end == period_end(current_date, granularity)
             period_transactions ==
                 {t \in transactions :
                     /\ current_date <= DateOf(t.transaction_date)
                     /\ DateOf(t.transaction_date) <= end}
             period_income == period_total(period_transactions, "income")
             period_expense == period_total(period_transactions, "expense")
             period_net == period_income - period_expense
             running == running_balance(balance, period_net)
         IN <<[period_start |-> current_date, period_end |-> end,
               income |-> period_income, expense |-> period_expense,
               net_flow |-> period_net, running_balance |-> running,
               transactions_count |-> Cardinality(period_transactions)]>>
            \o cash_flow_data(transactions, next_date(current_date, granularity),
                              end_date, granularity, running)

(* generate_cash_flow_report.  The rows are ordered by date; only their    *)
(* sums and counts reach the report.                                       *)
generate_cash_flow_report_mutant(store, sess, start_date, end_date, granularity, fault) ==
    IF fault = "transactions"
    THEN [outcome |-> "StorageFailure", result |-> None]
    ELSE [outcome |-> "ValueError", result |-> None]

generate_cash_flow_report(store, sess, start_date, end_date, granularity, fault) ==
    LET w == Begin(store, sess).working
        transactions == filter_dates(w.transactions, Some(start_date),
                                     Some(end_date))
        cash_flow == cash_flow_data(transactions, start_date, end_date,
                                    granularity, 0)
    IN IF granularity \notin Granularities
       THEN [outcome |-> "ValueError", result |-> None]
       ELSE IF fault = "transactions"
       THEN [outcome |-> "StorageFailure", result |-> None]
       ELSE [outcome |-> "ok",
             result |->
                 Some([period |-> [start_date |-> start_date,
                                   end_date |-> end_date,
                                   granularity |-> granularity],
                       cash_flow |-> cash_flow,
                       summary |->
                           [total_income |-> SumField(cash_flow, "income"),
                            total_expense |-> SumField(cash_flow, "expense"),
                            net_flow |-> SumField(cash_flow, "net_flow"),
                            final_balance |->
                                IF cash_flow # <<>>
                                THEN cash_flow[Len(cash_flow)].running_balance
                                ELSE 0,
                            periods_count |-> Len(cash_flow)]])]

(* group_by(Category.name, Transaction.transaction_type) with sum and     *)
(* count, over the transactions joined to their category                   *)
category_analysis_rows(store, rows) ==
    LET group(c, type) ==
            {t \in rows : t.category_id = c.id /\ t.transaction_type = type}
    IN {[name |-> c.name, transaction_type |-> type,
         total |-> SumAmounts(group(c, type)),
         count |-> Cardinality(group(c, type))] :
            <<c, type>> \in {<<c, type>> \in store.categories \X TransactionTypes :
                               group(c, type) # {}}}

(* `for cat_name, trans_type, total, count, average in category_analysis`: *)
(* the dict of categories, as the sequence of its values in insertion      *)
(* order.  The count of every group is added, whatever its type.           *)
RECURSIVE categories_dict(_)
categories_dict(analysis) ==
    IF analysis = <<>> THEN <<>>
    ELSE LET n == Len(analysis)
             row == analysis[n]
             items == categories_dict(SubSeq(analysis, 1, n - 1))
             organized(item) ==
                 [item EXCEPT
                    !.income = IF row.transaction_type = "income"
                               THEN row.total ELSE @,
                    !.expense = IF row.transaction_type = "expense"
                                THEN row.total ELSE @,
                    !.transactions_count = @ + row.count]
         IN IF \E i \in 1..Len(items) : items[i].name = row.name
            THEN [i \in 1..Len(items) |->
                    IF items[i].name = row.name
                    THEN organized(items[i]) ELSE items[i]]
            ELSE Append(items, organized([name |-> row.name, income |-> 0,
                                          expense |-> 0,
                                          transactions_count |-> 0]))

(* net_amount and average_transaction of a category *)
with_averages(items) ==
    [i \in 1..Len(items) |->
        [name |-> items[i].name, income |-> items[i].income,
         expense |-> items[i].expense,
         transactions_count |-> items[i].transactions_count,
         net_amount |-> items[i].income - items[i].expense,
         average_transaction |->
             IF items[i].transactions_count > 0
             THEN Ratio(items[i].income + items[i].expense,
                        items[i].transactions_count)
             ELSE Zero]]

(* sorted(categories.values(), key=expense, reverse=True): stable *)
RECURSIVE sorted_by_expense(_)
sorted_by_expense(items) ==
    IF items = <<>> THEN <<>>
    ELSE LET n == Len(items)
             i == CHOOSE i \in 1..n :
                    /\ \A j \in 1..n : items[j].expense <= items[i].expense
                    /\ \A j \in 1..(i - 1) : items[j].expense < items[i].expense
         IN <<items[i]>>
            \o sorted_by_expense(SubSeq(items, 1, i - 1)
                                 \o SubSeq(items, i + 1, n))

(* generate_category_report: the possible outcomes.  With a category_name  *)
(* the query joins Category twice; a build whose Query.join keeps both     *)
(* joins gets `ambiguous column name` from the database, one that drops    *)
(* the repeated join gets the rows.                                        *)
generate_category_report(store, sess, start_date, end_date, category_name) ==
    LET w == Begin(store, sess).working
        q1 == filter_dates(w.transactions, Some(start_date), Some(end_date))
        filtered == category_name # None /\ Val(category_name) # ""
        query == IF filtered THEN join_category(w, q1, Val(category_name))
                 ELSE q1
        groups == category_analysis_rows(w, query)
        report(analysis) ==
            LET categories == with_averages(categories_dict(analysis))
            IN [period |-> [start_date |-> start_date, end_date |-> end_date],
                category_filter |-> category_name,
                categories |-> sorted_by_expense(categories),
                summary |->
                    [total_categories |-> Len(categories),
                     total_income |-> SumField(categories, "income"),
                     total_expense |-> SumField(categories, "expense"),
                     total_transactions |->
                         SumField(categories, "transactions_count")]]
    IN {[outcome |-> "ok", result |-> Some(report(analysis))] :
           analysis \in order_by(groups, [g \in groups |-> 0 - g.total])}
       \cup IF filtered
            THEN {[outcome |-> "OperationalError", result |-> None]} ELSE {}

----------------------------------------------------------------------------
(* CLI commands.  A command is a process: cli.pc is the statement it is at,  *)
(* cli.service whether the local name service is bound, cli.open whether the *)
(* service holds a session it has not released, cli.closes how many times    *)
(* the command has called service.close(), cli.exit_code the exit code once  *)
(* typer.Exit was raised.                                                    *)

NoCommand ==
    [command |-> "none", trans_type |-> "", pc |-> "returned",
     service |-> FALSE, open |-> FALSE, closes |-> 0, exit_code |-> None]

Commands == {"add_transaction", "quick_add"}

CliTypes == {"expense", "refund"}

(* Both commands accept only the types income and expense. *)
valid_type(trans_type) == trans_type \in {"income", "expense"}

(* add_transaction closes the service in a finally clause; quick_add has no *)
(* finally clause and closes on the last line of the try body.              *)
has_finally(command) == command = "add_transaction"

(* The statement after the try keyword: add_transaction binds the service   *)
(* first and validates next, quick_add validates first.                     *)
first_statement(command) ==
    IF command = "add_transaction" THEN "create_service" ELSE "validate"

after_create_service(command) ==
    IF command = "add_transaction" THEN "validate" ELSE "call"

after_validate(command) ==
    IF command = "add_transaction" THEN "call" ELSE "create_service"

(* Where control goes once the try body has run to its end. *)
after_body(command) == IF has_finally(command) THEN "finally" ELSE "close"

(* Where control goes once an except clause has raised typer.Exit(1). *)
after_except(command) == IF has_finally(command) THEN "finally" ELSE "returned"

(* service.close(): releases the session if the service holds one. *)
close(c) == [c EXCEPT !.open = FALSE, !.closes = @ + 1]

----------------------------------------------------------------------------
(* State machine *)

Init ==
    /\ db = EmptyStore
    /\ session = CleanSession
    /\ nextId = 1
    /\ last = [op |-> "init", outcome |-> "ok"]
    /\ cli = NoCommand

Apply(r, call) ==
    /\ db' = r.committed
    /\ session' = r.session
    /\ nextId' = nextId + r.used
    /\ last' = call @@ [outcome |-> r.outcome]
    /\ UNCHANGED cli

CreateBudget(periods, faults, rows, ids) ==
    \E period \in periods, year \in Years, fault \in faults :
      LET period_type == period[1]
          month == period[2]
      IN
        /\ nextId <= ids
        /\ Cardinality(db.budgets) < rows
        /\ Apply(create_budget(db, session, nextId, "A", period_type, year, month, fault),
                 [op |-> "create_budget", period_type |-> period_type,
                  year |-> year, month |-> month, fault |-> fault])

CliCreateBudget(periods, months, faults) ==
    \E period_type \in periods, year \in {None} \cup {Some(y) : y \in Years},
       month \in months, now \in Clock, fault \in faults :
        /\ nextId <= MaxId
        /\ Cardinality(db.budgets) < MaxBudgets
        /\ LET r == cli_create_budget(db, session, nextId, "A", period_type, year,
                                      month, now, fault)
           IN Apply(r, [op |-> "cli_create_budget", period_type |-> period_type,
                        year |-> year, month |-> month, fault |-> fault])

AddBudgetCategory(amounts, faults, rows, ids) ==
    \E budget_id \in Ids(db.budgets) \cup {0}, category_name \in CategoryNames,
       allocated_amount \in amounts, fault \in faults :
        /\ nextId <= ids
        /\ Cardinality(db.budget_categories) < rows
        /\ Apply(add_budget_category(db, session, nextId, budget_id, category_name,
                                     allocated_amount, fault),
                 [op |-> "add_budget_category", budget_id |-> budget_id,
                  category_name |-> Some(category_name), account_name |-> None,
                  allocated_amount |-> allocated_amount, fault |-> fault])

UpdateBudget(faults) ==
    \E budget_id \in Ids(db.budgets) \cup {0}, name \in {None},
       is_active \in {None, Some(FALSE)}, fault \in faults :
        /\ Apply(update_budget(db, session, budget_id, name, is_active, fault),
                 [op |-> "update_budget", budget_id |-> budget_id, fault |-> fault])

DeleteBudget(faults) ==
    \E budget_id \in Ids(db.budgets) \cup {0}, fault \in faults :
        Apply(delete_budget(db, session, budget_id, fault),
              [op |-> "delete_budget", budget_id |-> budget_id, fault |-> fault])

CreateTransaction(inputs, faults, rows, ids) ==
    \E in \in inputs, now \in Now, fault \in faults :
        /\ nextId <= ids
        /\ Cardinality(db.transactions) < rows
        /\ Apply(create_transaction(db, session, nextId, in.amount,
                                    in.transaction_type, in.category_name,
                                    in.account_name, in.transaction_date,
                                    now, fault),
                 [op |-> "create_transaction", amount |-> in.amount,
                  category_name |-> Some(in.category_name),
                  account_name |-> Some(in.account_name), fault |-> fault])

UpdateTransaction(kwargs, faults) ==
    \E transaction_id \in Ids(db.transactions) \cup {0}, kw \in kwargs, fault \in faults :
        /\ nextId <= MaxId
        /\ Apply(update_transaction(db, session, nextId, transaction_id, kw, fault),
                 [op |-> "update_transaction", amount |-> kw.amount,
                  category_name |-> kw.category_name,
                  account_name |-> kw.account_name, fault |-> fault])

DeleteTransaction(faults) ==
    \E transaction_id \in Ids(db.transactions) \cup {0}, fault \in faults :
        Apply(delete_transaction(db, session, transaction_id, fault),
              [op |-> "delete_transaction", fault |-> fault])

CreateInvestment(types, initials, currents, dates, faults, rows, ids) ==
    \E investment_type \in types, initial_amount \in initials,
       current_value \in currents, purchase_date \in dates, now \in Now,
       fault \in faults :
        /\ nextId <= ids
        /\ Cardinality(db.investments) < rows
        /\ Apply(create_investment(db, session, nextId, investment_type,
                                   initial_amount, current_value, purchase_date,
                                   now, fault),
                 [op |-> "create_investment", id |-> nextId,
                  initial_amount |-> initial_amount,
                  current_value |-> current_value, fault |-> fault])

UpdateInvestmentValue(values, faults) ==
    \E investment_id \in Ids(db.investments) \cup {0}, current_value \in values,
       fault \in faults :
        Apply(update_investment_value(db, session, investment_id, current_value, fault),
              [op |-> "update_investment_value", investment_id |-> investment_id,
               current_value |-> current_value, fault |-> fault])

UpdateInvestment(values, faults) ==
    \E investment_id \in Ids(db.investments) \cup {0}, current_value \in values,
       is_active \in {None, Some(FALSE)}, fault \in faults :
        Apply(update_investment(db, session, investment_id, current_value,
                                is_active, fault),
              [op |-> "update_investment", investment_id |-> investment_id,
               fault |-> fault])

DeleteInvestment(faults) ==
    \E investment_id \in Ids(db.investments) \cup {0}, fault \in faults :
        Apply(delete_investment(db, session, investment_id, fault),
              [op |-> "delete_investment", investment_id |-> investment_id,
               fault |-> fault])

GetPortfolioSummary ==
    \E result \in get_portfolio_summary(db, session) :
        /\ last' = [op |-> "get_portfolio_summary", result |-> result,
                    outcome |-> "ok"]
        /\ UNCHANGED <<db, session, nextId, cli>>

GetInvestmentPerformance(todays) ==
    \E investment_id \in Ids(db.investments) \cup {0}, today \in todays :
        LET r == get_investment_performance(db, session, investment_id, today)
        IN /\ last' = [op |-> "get_investment_performance",
                       investment_id |-> investment_id, today |-> today,
                       result |-> r.result, outcome |-> r.outcome]
           /\ UNCHANGED <<db, session, nextId, cli>>

GetTransactions(args) ==
    \E a \in args : \E result \in get_transactions(db, session, a) :
        /\ last' = [op |-> "get_transactions", args |-> a, result |-> result,
                    outcome |-> "ok"]
        /\ UNCHANGED <<db, session, nextId, cli>>

GetSummary(starts, ends, accounts) ==
    \E start_date \in starts, end_date \in ends, account_name \in accounts :
        \E result \in get_summary(db, session, start_date, end_date, account_name) :
            /\ last' = [op |-> "get_summary", start_date |-> start_date,
                        end_date |-> end_date, account_name |-> account_name,
                        result |-> result, outcome |-> "ok"]
            /\ UNCHANGED <<db, session, nextId, cli>>

GetTransactionsSummary(starts, ends) ==
    \E start_date \in starts, end_date \in ends :
        \E r \in get_transactions_summary(db, session, start_date, end_date) :
            /\ last' = [op |-> "_get_transactions_summary",
                        start_date |-> start_date, end_date |-> end_date,
                        query |-> r.query, result |-> r.result, outcome |-> "ok"]
            /\ UNCHANGED <<db, session, nextId, cli>>

GetCurrentBudget(years, months) ==
    \E year \in years, month \in months :
        \E result \in get_current_budget(db, session, year, month) :
            /\ last' = [op |-> "get_current_budget", year |-> year,
                        month |-> month, result |-> result, outcome |-> "ok"]
            /\ UNCHANGED <<db, session, nextId, cli>>

GetBudgetAnalysis ==
    \E budget_id \in Ids(db.budgets) \cup {0} :
        \E r \in get_budget_analysis(db, session, budget_id) :
            /\ last' = [op |-> "get_budget_analysis", budget_id |-> budget_id,
                        result |-> r.result, outcome |-> r.outcome]
            /\ UNCHANGED <<db, session, nextId, cli>>

CalculatePercentageChange(values) ==
    \E old_value \in values, new_value \in values :
        /\ last' = [op |-> "calculate_percentage_change",
                    old_value |-> old_value, new_value |-> new_value,
                    result |-> calculate_percentage_change(old_value, new_value),
                    outcome |-> "ok"]
        /\ UNCHANGED <<db, session, nextId, cli>>

GenerateMonthlyReport(years, months, faults) ==
    \E year \in years, month \in months, fault \in faults :
        \E r \in generate_monthly_report(db, session, year, month, fault) :
            /\ last' = [op |-> "generate_monthly_report", year |-> year,
                        month |-> month, fault |-> fault, result |-> r.result,
                        outcome |-> r.outcome]
            /\ UNCHANGED <<db, session, nextId, cli>>

GenerateYearlyReport(years, faults) ==
    \E year \in years, fault \in faults :
        \E r \in generate_yearly_report(db, session, year, fault) :
            /\ last' = [op |-> "generate_yearly_report", year |-> year,
                        fault |-> fault, result |-> r.result,
                        outcome |-> r.outcome]
            /\ UNCHANGED <<db, session, nextId, cli>>

GenerateCashFlowReport(ranges, granularities, faults) ==
    \E range \in ranges, granularity \in granularities, fault \in faults :
        LET r == generate_cash_flow_report(db, session, range[1], range[2],
                                           granularity, fault)
        IN /\ last' = [op |-> "generate_cash_flow_report",
                       start_date |-> range[1], end_date |-> range[2],
                       granularity |-> granularity, fault |-> fault,
                       result |-> r.result, outcome |-> r.outcome]
           /\ UNCHANGED <<db, session, nextId, cli>>

GenerateCategoryReport(ranges, names) ==
    \E range \in ranges, category_name \in names :
        \E r \in generate_category_report(db, session, range[1], range[2],
                                          category_name) :
            /\ last' = [op |-> "generate_category_report",
                        start_date |-> range[1], end_date |-> range[2],
                        category_name |-> category_name,
                        result |-> r.result, outcome |-> r.outcome]
            /\ UNCHANGED <<db, session, nextId, cli>>

(* Every mutating operation, each with the storage failing at a statement  *)
(* or at the commit.                                                       *)
Expense ==
    [amount |-> 100, transaction_type |-> "expense", category_name |-> "food",
     account_name |-> "default", transaction_date |-> None]

(* A command is invoked once the previous one has returned. *)
CliInvoke(commands, types) ==
    \E command \in commands, trans_type \in types :
        /\ cli.pc = "returned"
        /\ cli' = [command |-> command, trans_type |-> trans_type,
                   pc |-> first_statement(command), service |-> FALSE,
                   open |-> FALSE, closes |-> 0, exit_code |-> None]
        /\ UNCHANGED <<db, session, nextId, last>>

(* service = TransactionService(): a service without a session yet. *)
CliCreateService ==
    /\ cli.pc = "create_service"
    /\ cli' = [cli EXCEPT !.service = TRUE, !.pc = after_create_service(cli.command)]
    /\ session' = CleanSession
    /\ UNCHANGED <<db, nextId, last>>

(* An invalid type raises typer.Exit(1) inside the try body, where the *)
(* except Exception clause catches it.                                  *)
CliValidate ==
    /\ cli.pc = "validate"
    /\ cli' = [cli EXCEPT !.pc = IF valid_type(cli.trans_type)
                                 THEN after_validate(cli.command)
                                 ELSE "except"]
    /\ UNCHANGED <<db, session, nextId, last>>

(* service.create_transaction(...): the service opens its session; an *)
(* exception of the service goes to the except clause.                *)
CliCall(faults, rows, ids) ==
    \E now \in Now, fault \in faults :
        LET r == create_transaction(db, session, nextId, Expense.amount,
                                    cli.trans_type, Expense.category_name,
                                    Expense.account_name, None, now, fault)
        IN  /\ cli.pc = "call"
            /\ nextId <= ids
            /\ Cardinality(db.transactions) < rows
            /\ db' = r.committed
            /\ session' = r.session
            /\ nextId' = nextId + r.used
            /\ last' = [op |-> cli.command, amount |-> Expense.amount,
                        category_name |-> Some(Expense.category_name),
                        account_name |-> Some(Expense.account_name),
                        fault |-> fault, outcome |-> r.outcome]
            /\ cli' = [cli EXCEPT !.open = TRUE,
                                  !.pc = IF r.outcome = "ok"
                                         THEN after_body(cli.command)
                                         ELSE "except"]

(* The last statement of quick_add's try body: service.close(). *)
CliClose ==
    /\ cli.pc = "close"
    /\ cli' = [close(cli) EXCEPT !.pc = "returned", !.exit_code = Some(0)]
    /\ session' = CleanSession
    /\ UNCHANGED <<db, nextId, last>>

(* The except clause prints the error and raises typer.Exit(1). *)
CliExcept ==
    /\ cli.pc = "except"
    /\ cli' = [cli EXCEPT !.pc = after_except(cli.command), !.exit_code = Some(1)]
    /\ UNCHANGED <<db, session, nextId, last>>

(* finally: if 'service' in locals(): service.close(). *)
CliFinally ==
    /\ cli.pc = "finally"
    /\ cli' = [(IF cli.service THEN close(cli) ELSE cli) EXCEPT
                   !.pc = "returned",
                   !.exit_code = IF @ = None THEN Some(0) ELSE @]
    /\ session' = IF cli.service THEN CleanSession ELSE session
    /\ UNCHANGED <<db, nextId, last>>

NoFault == {"none"}

(* The periods a caller means: a month of the year, or the whole year *)
Periods == {<<"monthly", Some(1)>>, <<"monthly", Some(12)>>, <<"yearly", None>>}

NextBudget ==
    \/ CreateBudget(Periods, NoFault, MaxBudgets, MaxId)
    \/ UpdateBudget(NoFault)
    \/ DeleteBudget(NoFault)

SpecBudget == Init /\ [][NextBudget]_vars

NextAllocation ==
    \/ CreateBudget({<<"monthly", Some(1)>>, <<"monthly", Some(12)>>}, NoFault, MaxBudgets, MaxId)
    \/ AddBudgetCategory(AllocatedAmounts, NoFault, MaxAllocations, MaxId)
    \/ DeleteBudget(NoFault)

SpecAllocation == Init /\ [][NextAllocation]_vars

NextBudgetCli ==
    \/ CreateBudget(PeriodTypes \X MonthArgs, NoFault, MaxBudgets, MaxId)
    \/ CliCreateBudget(PeriodTypes \cup {"weekly"}, MonthArgs, NoFault)
    \/ DeleteBudget(NoFault)

SpecBudgetCli == Init /\ [][NextBudgetCli]_vars

WriteKwargs ==
    {[amount |-> a, transaction_type |-> None, transaction_date |-> None,
      category_name |-> c, account_name |-> n] :
        a \in {None, Some(-100)}, c \in {None, Some("rent")},
        n \in {None, Some("visa")}}

Next ==
    \/ CreateTransaction({Expense}, Faults, MaxTransactions, MaxId)
    \/ UpdateTransaction(WriteKwargs, Faults)
    \/ DeleteTransaction({"none", "commit"})
    \/ CreateBudget({<<"monthly", Some(1)>>}, {"none", "commit"}, MaxBudgets, MaxId)
    \/ AddBudgetCategory({50000}, {"none", "first", "commit"}, MaxAllocations, MaxId)
    \/ UpdateBudget({"none", "commit"})
    \/ DeleteBudget({"none", "first", "commit"})
    \/ CreateInvestment({"stock"}, {100000}, {None}, {None}, {"none", "commit"}, MaxInvestments, MaxId)
    \/ UpdateInvestmentValue({120000}, {"none", "commit"})

Spec == Init /\ [][Next]_vars

------------------------------------------------------------
(* A ledger of a few transactions that differ in every filtered column,    *)
(* and the two queries of TransactionService over it.                      *)
LedgerInputs ==
    {[amount |-> 100, transaction_type |-> "expense", category_name |-> "food",
      account_name |-> "default", transaction_date |-> None],
     [amount |-> 200, transaction_type |-> "income", category_name |-> "rent",
      account_name |-> "visa", transaction_date |-> Some(Midnight(MaxDay))],
     [amount |-> 100, transaction_type |-> "transfer", category_name |-> "food",
      account_name |-> "visa", transaction_date |-> Some(Midnight(0) + 1)]}

DateArgs == {None} \cup {Some(d) : d \in Days}
AccountArgs == {None} \cup {Some(n) : n \in AccountNames}

NoFilters ==
    [transaction_type |-> None, category_name |-> None, account_name |-> None,
     start_date |-> None, end_date |-> None, min_amount |-> None,
     max_amount |-> None]

FilterValues ==
    [transaction_type |-> {Some(t) : t \in TransactionTypes},
     category_name |-> {Some(n) : n \in CategoryNames},
     account_name |-> {Some(n) : n \in AccountNames},
     start_date |-> {Some(d) : d \in Days},
     end_date |-> {Some(d) : d \in Days},
     min_amount |-> {Some(100), Some(200)},
     max_amount |-> {Some(100), Some(200)}]

With(filters, fields) ==
    UNION {UNION {{[a EXCEPT ![f] = v] : v \in FilterValues[f]} : f \in fields} :
           a \in filters}

OneFilter == With({NoFilters}, DOMAIN FilterValues)
TwoFilters == With(OneFilter, {"end_date", "max_amount"})

ListArgs ==
    {f @@ [order_by |-> "date_desc", offset |-> 0, limit |-> 50] :
        f \in {NoFilters} \cup OneFilter \cup TwoFilters}
    \cup {NoFilters @@ [order_by |-> o, offset |-> k, limit |-> n] :
            o \in OrderBys, k \in {0, 1}, n \in {1, 50}}

NextLedger ==
    \/ CreateTransaction(LedgerInputs, NoFault, MaxTransactions, 3 * MaxTransactions)
    \/ GetTransactions(ListArgs)
    \/ GetSummary(DateArgs, DateArgs, AccountArgs)

SpecLedger == Init /\ [][NextLedger]_vars

(* Expenses in as many categories as the ranking needs: the k-th expense   *)
(* opens the k-th category and costs k or k + 1 hundred, so that           *)
(* neighbours may tie; the second expense may be dated before the first.   *)
TopCategoryNames ==
    <<"food", "rent", "fuel", "gym", "books", "gifts", "taxes", "pets",
      "travel", "health">>

TopInputs(store) ==
    LET k == Cardinality(store.transactions) + 1 IN
    IF k > Len(TopCategoryNames) THEN {}
    ELSE {[amount |-> a, transaction_type |-> "expense",
           category_name |-> TopCategoryNames[k], account_name |-> "default",
           transaction_date |-> d] :
             a \in {100 * k, 100 * (k + 1)},
             d \in IF k = 2 THEN {None, Some(Midnight(0))} ELSE {None}}

NextTop ==
    \/ CreateTransaction(TopInputs(db), NoFault, MaxExpenses, 2 * MaxExpenses + 1)
    \/ GetSummary({None}, {None}, {None})
    \/ GetTransactionsSummary({0}, {MaxDay + 1})

SpecTop == Init /\ [][NextTop]_vars

(* One yearly budget, allocations of a positive, a zero and a negative     *)
(* amount, expenses above and below them, and the budget's analysis.       *)
AnalysisAmounts == {0 - 50000, 0, 50000}

AnalysisInputs ==
    {[amount |-> 60000, transaction_type |-> "expense", category_name |-> "food",
      account_name |-> "default", transaction_date |-> None],
     [amount |-> 10000, transaction_type |-> "expense", category_name |-> "rent",
      account_name |-> "default", transaction_date |-> None]}

AnalysisIds == 1 + 2 * MaxAllocations + 3 * MaxTransactions

NextAnalysis ==
    \/ CreateBudget({<<"yearly", None>>}, NoFault, 1, 1)
    \/ AddBudgetCategory(AnalysisAmounts, NoFault, MaxAllocations, AnalysisIds)
    \/ CreateTransaction(AnalysisInputs, NoFault, MaxTransactions, AnalysisIds)
    \/ GetBudgetAnalysis

SpecAnalysis == Init /\ [][NextAnalysis]_vars

(* One budget of each kind of period, allocations to two categories, and  *)
(* food transactions dated at the edges of the windows.                    *)
WindowDates ==
    {Midnight(date(2025, 1, 1)), Midnight(date(2025, 2, 1)) - 1,
     Midnight(date(2025, 2, 1)), Midnight(date(2025, 12, 31)) + 1,
     Midnight(date(2026, 1, 1))}

WindowInputs(store) ==
    IF store.budget_categories = {} THEN {}
    ELSE {[amount |-> 100, transaction_type |-> "expense",
           category_name |-> "food", account_name |-> "default",
           transaction_date |-> Some(d)] : d \in WindowDates}
         \cup {[amount |-> 100, transaction_type |-> "income",
                category_name |-> "food", account_name |-> "default",
                transaction_date |-> Some(Midnight(date(2025, 12, 31)) + 1)]}

NextWindow ==
    \/ CreateBudget(Periods, NoFault, 1, 1)
    \/ AddBudgetCategory({50000}, NoFault, MaxAllocations, AnalysisIds)
    \/ CreateTransaction(WindowInputs(db), NoFault, MaxTransactions, AnalysisIds)
    \/ GetBudgetAnalysis

SpecWindow == Init /\ [][NextWindow]_vars

(* Budgets as the service accepts them, with or without a month whatever   *)
(* the period type, deactivated or deleted, and the lookup of the current  *)
(* budget.                                                                 *)
NextCurrent ==
    \/ CreateBudget(PeriodTypes \X {None, Some(1), Some(12)}, NoFault, MaxBudgets, MaxId)
    \/ UpdateBudget(NoFault)
    \/ DeleteBudget(NoFault)
    \/ GetCurrentBudget({2025, 2026}, {None, Some(1), Some(12)})

SpecCurrent == Init /\ [][NextCurrent]_vars

(* A portfolio: investments created with or without a current value,      *)
(* revalued, deactivated and deleted.                                      *)
InvestmentTypes == {"stock", "crypto"}
SuppliedValues == {None, Some(0), Some(120000)}

NextInvestment ==
    \/ CreateInvestment({"stock"}, {100000}, SuppliedValues, {None},
                        NoFault, MaxInvestments + 1, MaxInvestments + 2)
    \/ UpdateInvestmentValue({0, 150000}, {"none", "commit"})
    \/ UpdateInvestment({None}, NoFault)
    \/ DeleteInvestment(NoFault)

SpecInvestment == Init /\ [][NextInvestment]_vars

(* A portfolio of investments of two types, bought for any amount the     *)
(* service accepts, some deactivated, and its summary.                     *)
PortfolioAmounts == {0 - 50000, 100000}

NextPortfolio ==
    \/ CreateInvestment(InvestmentTypes, PortfolioAmounts, {None, Some(120000)},
                        {None}, NoFault, MaxInvestments + 1, MaxInvestments + 2)
    \/ UpdateInvestment({None}, NoFault)
    \/ GetPortfolioSummary

SpecPortfolio == Init /\ [][NextPortfolio]_vars

(* Investments bought today, on a later day or with no money, and their   *)
(* performance looked up today or tomorrow.                                *)
PurchaseDates == {None, Some(Midnight(MaxDay + 2))}
Todays == {MaxDay, MaxDay + 1}

NextPerformance ==
    \/ CreateInvestment({"stock"}, {0, 100000}, {None, Some(120000)},
                        PurchaseDates, NoFault, MaxInvestments + 1,
                        MaxInvestments + 2)
    \/ DeleteInvestment(NoFault)
    \/ GetInvestmentPerformance(Todays)

SpecPerformance == Init /\ [][NextPerformance]_vars

(* The reports of January 2025 and of 2025 over a budget, expenses and an  *)
(* investment, each with one of its blocks failing or none.                *)
NextReport ==
    \/ CreateBudget({<<"monthly", Some(1)>>}, NoFault, 1, 7)
    \/ AddBudgetCategory({50000}, NoFault, 1, 7)
    \/ CreateTransaction({Expense}, NoFault, 1, 7)
    \/ CreateInvestment({"stock"}, {100000}, {Some(120000)}, {None}, NoFault, 1, 7)
    \/ GenerateMonthlyReport({2025}, {1, 13},
                             {"none", "transactions", "budget", "investments",
                              "trends"})
    \/ GenerateYearlyReport({2025},
                            {"none", "transactions", "investments", "growth"})

SpecReport == Init /\ [][NextReport]_vars

(* Income and expenses of 2024 and 2025, the yearly report of 2025 and     *)
(* the percentage change of any two amounts.                               *)
GrowthInputs ==
    {[amount |-> in[1], transaction_type |-> in[2], category_name |-> "food",
      account_name |-> "default",
      transaction_date |-> Some(Midnight(date(in[3], 6, 15)))] :
        in \in {<<20000, "expense", 2024>>, <<15000, "expense", 2025>>,
                <<10000, "income", 2025>>}}

ChangeValues == {0 - 20000, 0, 15000, 20000}

NextGrowth ==
    \/ CreateTransaction(GrowthInputs, NoFault, MaxTransactions, 3 * MaxTransactions)
    \/ GenerateYearlyReport({2025}, NoFault)
    \/ CalculatePercentageChange(ChangeValues)

SpecGrowth == Init /\ [][NextGrowth]_vars

(* Cash-flow reports of every granularity over ten days of January, over  *)
(* the turn of a month, over the turn of the year and over an empty range, *)
(* on a ledger with income and expenses at midnight and later in the day.  *)
CashRanges ==
    {<<date(2025, 1, 1), date(2025, 1, 10)>>,
     <<date(2025, 1, 30), date(2025, 2, 2)>>,
     <<date(2025, 12, 30), date(2026, 1, 2)>>,
     <<date(2025, 1, 2), date(2025, 1, 1)>>}

CashInputs ==
    {[amount |-> in[1], transaction_type |-> in[2], category_name |-> "food",
      account_name |-> "default", transaction_date |-> Some(in[3])] :
        in \in {<<200, "income", Midnight(date(2025, 1, 1)) + 1>>,
                <<100, "expense", Midnight(date(2025, 1, 10))>>,
                <<100, "expense", Midnight(date(2025, 1, 10)) + 1>>,
                <<200, "income", Midnight(date(2025, 2, 1))>>}}

NextCashFlow ==
    \/ CreateTransaction(CashInputs, NoFault, MaxTransactions, 3 * MaxTransactions)
    \/ GenerateCashFlowReport(CashRanges, Granularities \cup {"yearly"},
                              {"none", "transactions"})

SpecCashFlow == Init /\ [][NextCashFlow]_vars

(* Category reports, with and without a category filter, on a ledger of   *)
(* income, expenses and transfers in two categories.                       *)
CategoryInputs ==
    {[amount |-> in[1], transaction_type |-> in[2], category_name |-> in[3],
      account_name |-> "default", transaction_date |-> None] :
        in \in {<<100, "expense", "food">>, <<200, "income", "food">>,
                <<100, "transfer", "food">>, <<100, "expense", "rent">>}}

NextCategory ==
    \/ CreateTransaction(CategoryInputs, NoFault, MaxTransactions, 2 + 2 * MaxTransactions)
    \/ GenerateCategoryReport({<<0, MaxDay + 1>>, <<0, 0>>}, {None, Some("food")})

SpecCategory == Init /\ [][NextCategory]_vars

(* The two commands that record a transaction, with failing service calls. *)
NextCli ==
    \/ CliInvoke(Commands, CliTypes)
    \/ CliCreateService
    \/ CliValidate
    \/ CliCall(Faults, MaxTransactions, MaxId)
    \/ CliClose
    \/ CliExcept
    \/ CliFinally

SpecCli == Init /\ [][NextCli]_vars

(* Monthly reports of January and February 2025 on a ledger with expenses  *)
(* in December 2024, January and February 2025 and income in January.      *)
TrendInputs ==
    {[amount |-> in[1], transaction_type |-> in[2], category_name |-> "food",
      account_name |-> "default",
      transaction_date |-> Some(Midnight(date(in[3], in[4], 15)))] :
        in \in {<<20000, "expense", 2024, 12>>, <<15000, "expense", 2025, 1>>,
                <<10000, "income", 2025, 1>>, <<15000, "expense", 2025, 2>>}}

NextTrends ==
    \/ CreateTransaction(TrendInputs, NoFault, MaxTransactions + 1,
                         3 * MaxTransactions + 3)
    \/ GenerateMonthlyReport({2025}, {1, 2}, NoFault)

SpecTrends == Init /\ [][NextTrends]_vars

(* Yearly reports of 2025 on a ledger with transactions in the middle of a *)
(* month, at the first instant of a month and later than midnight on the   *)
(* last day of January and of December.                                    *)
YearInputs ==
    {[amount |-> in[1], transaction_type |-> in[2], category_name |-> "food",
      account_name |-> "default", transaction_date |-> Some(in[3])] :
        in \in {<<15000, "expense", Midnight(date(2025, 1, 15))>>,
                <<10000, "income", Midnight(date(2025, 1, 31)) + 1>>,
                <<20000, "expense", Midnight(date(2025, 2, 1))>>,
                <<5000, "expense", Midnight(date(2025, 12, 31)) + 1>>}}

NextYear ==
    \/ CreateTransaction(YearInputs, NoFault, MaxTransactions + 1,
                         3 * MaxTransactions + 3)
    \/ GenerateYearlyReport({2025}, NoFault)

SpecYear == Init /\ [][NextYear]_vars

(* Budgets with allocations and transactions in one store: every operation *)
(* that writes or deletes a referencing or a referenced row, each with the *)
(* storage failing at a statement or at the commit.                        *)
NextIntegrity ==
    \/ CreateTransaction({Expense}, {"none", "commit"}, MaxTransactions, MaxId + 3)
    \/ UpdateTransaction(WriteKwargs, {"none", "commit"})
    \/ DeleteTransaction({"none", "commit"})
    \/ CreateBudget({<<"monthly", Some(1)>>}, NoFault, MaxBudgets, MaxId + 3)
    \/ AddBudgetCategory({50000}, {"none", "first", "commit"}, MaxAllocations,
                         MaxId + 3)
    \/ DeleteBudget({"none", "first", "commit"})

SpecIntegrity == Init /\ [][NextIntegrity]_vars

----------------
(* Properties *)

C1_SamePeriod(a, b) ==
    a.period_type = b.period_type /\ a.year = b.year /\ a.month = b.month

(* C1: the store never holds two budgets with the same (period_type, year, *)
(* month), two yearly budgets of one year (month none) included.           *)
C1_OneBudgetPerPeriod ==
    \A a \in db.budgets : \A b \in db.budgets : C1_SamePeriod(a, b) => a = b

(* C2: create_budget for a monthly (year, month) that is already stored    *)
(* fails with the store's constraint violation and leaves the store as it  *)
(* was.                                                                    *)
C2_Duplicate(store, call) ==
    /\ call.op = "create_budget"
    /\ call.period_type = "monthly"
    /\ call.month # None
    /\ \E b \in store.budgets :
          b.period_type = "monthly" /\ b.year = call.year /\ b.month = call.month

C2_DuplicateMonthlyRejected ==
    [][C2_Duplicate(db, last') => (last'.outcome = "IntegrityError" /\ db' = db)]_vars

C2_Witness ==
    /\ C2_Duplicate(db, last)
    /\ last.outcome = "IntegrityError"
    /\ Cardinality(db.budgets) = 1

(* C3: a budget never has two allocations for one category; a second       *)
(* add_budget_category for the same (budget, category name) fails and      *)
(* leaves the allocations, the first one's amount included, as they were.  *)
C3_Allocated(store, budget_id, category_name) ==
    {x \in store.budget_categories :
        /\ x.budget_id = budget_id
        /\ \E c \in store.categories : c.id = x.category_id /\ c.name = category_name}

C3_OnePerCategory(store) ==
    \A b \in Ids(store.budgets) : \A n \in CategoryNames :
        Cardinality(C3_Allocated(store, b, n)) <= 1

C3_OneAllocationPerCategory ==
    [][/\ C3_OnePerCategory(db')
       /\ (/\ last'.op = "add_budget_category"
           /\ C3_Allocated(db, last'.budget_id, Val(last'.category_name)) # {})
          => (last'.outcome = "IntegrityError" /\ db' = db)]_vars

C3_Witness ==
    /\ last.op = "add_budget_category"
    /\ last.outcome = "IntegrityError"
    /\ \E x \in C3_Allocated(db, last.budget_id, Val(last.category_name)) :
          x.allocated_amount # last.allocated_amount

(* C10: a monthly create_budget with no month or a month outside 1..12 is  *)
(* rejected with a validation error and nothing is written; a yearly       *)
(* create_budget stores month none whatever month was passed.              *)
C10_MonthValidated ==
    /\ \A b \in db.budgets :
          /\ b.period_type = "monthly" => (b.month # None /\ Val(b.month) \in 1..12)
          /\ b.period_type = "yearly" => b.month = None
    /\ (/\ last.op \in {"create_budget", "cli_create_budget"}
        /\ last.period_type = "monthly"
        /\ (last.month = None \/ Val(last.month) \notin 1..12))
       => last.outcome = "ValidationError"

(* C4: when persistence fails inside a mutating operation the session is   *)
(* rolled back, the error raised by the store is the call's outcome, and   *)
(* the committed store is the one before the call: no row written during   *)
(* the call, an auto-created category or account included, remains.        *)
C4_MutatingOps ==
    {"create_transaction", "update_transaction", "delete_transaction",
     "create_budget", "add_budget_category", "update_budget", "delete_budget",
     "create_investment", "update_investment_value"}

C4_Errors == {"IntegrityError", "StorageFailure"}

C4_Failed(call) == call.op \in C4_MutatingOps /\ call.outcome \notin {"ok", "None"}

C4_FailureRollsBack ==
    [][C4_Failed(last')
          => /\ last'.outcome \in C4_Errors
             /\ db' = db
             /\ session' = CleanSession]_vars

C4_Witness ==
    /\ last.op = "create_transaction"
    /\ last.fault = "second"
    /\ last.outcome = "StorageFailure"
    /\ db.categories = {}
    /\ session = CleanSession

(* C5: every stored transaction has amount >= 0 *)
C5_AmountNonNegative == \A t \in db.transactions : t.amount >= 0

(* C6: get-or-create by name is idempotent: names are unique among the     *)
(* categories and among the accounts, a successful call leaves exactly one *)
(* row for each name it references, and a call that references a stored    *)
(* name inserts no category or account row for it.                         *)
C6_Named(rows, name) == {x \in rows : x.name = name}

C6_UniqueNames(rows) == \A x \in rows : C6_Named(rows, x.name) = {x}

C6_GetOrCreate(before, after, name) ==
    name # None =>
        /\ Cardinality(C6_Named(after, Val(name))) = 1
        /\ C6_Named(before, Val(name)) # {}
              => C6_Named(after, Val(name)) = C6_Named(before, Val(name))

C6_GetOrCreateIdempotent ==
    [][/\ C6_UniqueNames(db'.categories)
       /\ C6_UniqueNames(db'.accounts)
       /\ (/\ last'.op \in {"create_transaction", "update_transaction",
                           "add_budget_category"}
           /\ last'.outcome = "ok")
          => /\ C6_GetOrCreate(db.categories, db'.categories, last'.category_name)
             /\ C6_GetOrCreate(db.accounts, db'.accounts, last'.account_name)
             /\ Cardinality(db'.categories) <= Cardinality(db.categories) + 1
             /\ Cardinality(db'.accounts) <= Cardinality(db.accounts) + 1]_vars

C6_Witness ==
    /\ last.op = "create_transaction"
    /\ last.outcome = "ok"
    /\ Cardinality(db.transactions) = 2
    /\ Cardinality(db.categories) = 1
    /\ Cardinality(db.accounts) = 1

(* C7: a summary's balance is income_total - expense_total, and the two    *)
(* totals are the exact sums of the amounts of the income and of the       *)
(* expense transactions that pass the summary's filters (a date bound      *)
(* taken as the query takes it, at its midnight); transfers add to neither. *)
RECURSIVE C7_Sum(_)
C7_Sum(rows) ==
    IF rows = {} THEN 0
    ELSE LET t == CHOOSE x \in rows : \A y \in rows : y.id <= x.id
         IN C7_Sum(rows \ {t}) + t.amount

C7_Matching(store, call) ==
    {t \in store.transactions :
        /\ call.start_date # None
              => ~(t.transaction_date < Midnight(Val(call.start_date)))
        /\ call.end_date # None
              => ~(t.transaction_date > Midnight(Val(call.end_date)))
        /\ call.account_name # None
              => \A a \in store.accounts :
                    a.id = t.account_id => a.name = Val(call.account_name)}

C7_OfType(rows, type) == {t \in rows : t.transaction_type = type}

C7_BalanceIsIncomeMinusExpense ==
    last.op = "get_summary" =>
        LET matching == C7_Matching(db, last)
            r == last.result
        IN /\ r.income_total = C7_Sum(C7_OfType(matching, "income"))
           /\ r.expense_total = C7_Sum(C7_OfType(matching, "expense"))
           /\ r.balance = r.income_total - r.expense_total
           /\ r.income_total + r.expense_total
                 = C7_Sum(matching) - C7_Sum(C7_OfType(matching, "transfer"))

C7_Witness ==
    /\ last.op = "get_summary"
    /\ last.start_date # None
    /\ last.account_name = None
    /\ C7_OfType(C7_Matching(db, last), "transfer") # {}
    /\ last.result.total_transactions = 2
    /\ last.result.balance < 0

(* C8: the top expense categories are at most 5, they are the categories   *)
(* with the largest summed expense amounts, in descending order of the     *)
(* sum.  In the report's summary two categories with equal sums appear in  *)
(* the order in which each was first met among the rows as the query       *)
(* delivered them; in get_summary the order of equal sums is the store's.  *)
C8_Groups(store, rows) ==
    LET spent(c) == {t \in C7_OfType(rows, "expense") : t.category_id = c.id}
    IN {[name |-> c.name, amount |-> C7_Sum(spent(c))] :
            c \in {c \in store.categories : spent(c) # {}}}

C8_Ranked(top, groups) ==
    /\ Len(top) <= TopLimit
    /\ Len(top) = Cardinality(groups) \/ Len(top) = TopLimit
    /\ \A i \in 1..Len(top) : top[i] \in groups
    /\ \A i \in 1..Len(top) : \A j \in 1..Len(top) :
          i < j => top[i].name # top[j].name /\ top[i].amount >= top[j].amount
    /\ \A g \in groups :
          (\A i \in 1..Len(top) : top[i] # g)
             => \A i \in 1..Len(top) : g.amount <= top[i].amount

(* The place in `rows` of the first expense of the category called `name` *)
C8_FirstMet(store, rows, name) ==
    CHOOSE i \in 1..Len(rows) :
        LET of(k) == /\ rows[k].transaction_type = "expense"
                     /\ \E c \in store.categories :
                           c.id = rows[k].category_id /\ c.name = name
        IN of(i) /\ \A k \in 1..(i - 1) : ~of(k)

C8_TiesAsMet(store, rows, top) ==
    \A i \in 1..Len(top) : \A j \in 1..Len(top) :
        (i < j /\ top[i].amount = top[j].amount)
           => C8_FirstMet(store, rows, top[i].name)
                 < C8_FirstMet(store, rows, top[j].name)

C8_Elements(rows) == {rows[i] : i \in 1..Len(rows)}

C8_TopCategoriesRanked ==
    /\ last.op = "get_summary"
          => C8_Ranked(last.result.top_categories,
                       C8_Groups(db, C7_Matching(db, last)))
    /\ last.op = "_get_transactions_summary"
          => /\ C8_Ranked(last.result.top_expense_categories,
                          C8_Groups(db, C8_Elements(last.query)))
             /\ C8_TiesAsMet(db, last.query, last.result.top_expense_categories)

C8_Witness ==
    /\ last.op = "_get_transactions_summary"
    /\ Cardinality(db.categories) > TopLimit
    /\ Len(last.result.top_expense_categories) = TopLimit
    /\ \E i \in 1..(TopLimit - 1) :
          last.result.top_expense_categories[i].amount
             = last.result.top_expense_categories[i + 1].amount

(* C8 as stated: equal sums appear in the order in which the categories    *)
(* were first met in the ledger, in both summaries.                        *)
C8_Inserted(store) ==
    CHOOSE rows \in [1..Cardinality(store.transactions) -> store.transactions] :
        \A i \in DOMAIN rows : \A j \in DOMAIN rows : i < j => rows[i].id < rows[j].id

C8_TiesInFirstEncounterOrder ==
    /\ C8_TopCategoriesRanked
    /\ last.op = "get_summary"
          => C8_TiesAsMet(db, C8_Inserted(db), last.result.top_categories)
    /\ last.op = "_get_transactions_summary"
          => C8_TiesAsMet(db, C8_Inserted(db), last.result.top_expense_categories)

(* C9: get_transactions returns exactly the stored transactions that pass  *)
(* every supplied filter (type, category name, account name, dates from    *)
(* start_date to end_date with both days included, amounts from min_amount *)
(* to max_amount inclusive), in the requested order, cut to the positions  *)
(* offset .. offset + limit - 1.                                           *)
C9_Satisfies(store, t, a) ==
    /\ a.transaction_type # None => t.transaction_type = Val(a.transaction_type)
    /\ a.category_name # None
          => \E c \in store.categories :
                c.id = t.category_id /\ c.name = Val(a.category_name)
    /\ a.account_name # None
          => \E c \in store.accounts :
                c.id = t.account_id /\ c.name = Val(a.account_name)
    /\ a.start_date # None => DateOf(t.transaction_date) >= Val(a.start_date)
    /\ a.end_date # None => DateOf(t.transaction_date) <= Val(a.end_date)
    /\ a.min_amount # None => t.amount >= Val(a.min_amount)
    /\ a.max_amount # None => t.amount <= Val(a.max_amount)

C9_Before(a, t, u) ==
    CASE a.order_by = "date_desc" -> t.transaction_date > u.transaction_date
      [] a.order_by = "date_asc" -> t.transaction_date < u.transaction_date
      [] a.order_by = "amount_desc" -> t.amount > u.amount
      [] a.order_by = "amount_asc" -> t.amount < u.amount

C9_Page(matching, a, r) ==
    /\ \A i \in 1..Len(r) : r[i] \in matching
    /\ \A i \in 1..Len(r) : \A j \in 1..Len(r) :
          i < j => r[i] # r[j] /\ ~C9_Before(a, r[j], r[i])
    /\ \A i \in 1..Len(r) :
          /\ Cardinality({t \in matching : C9_Before(a, t, r[i])}) < a.offset + i
          /\ Cardinality({t \in matching : ~C9_Before(a, r[i], t)}) >= a.offset + i
    /\ Len(r) = a.limit \/ Len(r) + a.offset = Cardinality(matching)
       \/ (Len(r) = 0 /\ a.offset >= Cardinality(matching))
    /\ Len(r) <= a.limit

C9_ExactlyTheMatching ==
    last.op = "get_transactions" =>
        C9_Page({t \in db.transactions : C9_Satisfies(db, t, last.args)},
                last.args, last.result)

(* C11: for every allocated category of a budget the analysis reports the  *)
(* allocation, remaining = allocated - spent, is_over_budget =             *)
(* (spent > allocated) and percentage_used = spent / allocated * 100 when  *)
(* allocated > 0, 0 when allocated <= 0; the totals are the sums of        *)
(* allocated and of spent over the categories.                             *)
RECURSIVE C11_Sum(_, _)
C11_Sum(entries, field) ==
    IF entries = {} THEN 0
    ELSE LET e == CHOOSE x \in entries : TRUE
         IN e[field] + C11_Sum(entries \ {e}, field)

C11_Is(ratio, n, d) == ratio.den > 0 /\ ratio.num * d = n * ratio.den

C11_Entries(result) == {result.categories[i] : i \in 1..Len(result.categories)}

C11_Allocations(store, budget_id) ==
    {[category_name |-> c.name, allocated_amount |-> x.allocated_amount] :
        <<x, c>> \in {<<x, c>> \in store.budget_categories \X store.categories :
                        x.budget_id = budget_id /\ x.category_id = c.id}}

C11_Arithmetic(result, Percent(_, _, _)) ==
    LET entries == C11_Entries(result) IN
    /\ Cardinality(entries) = Len(result.categories)
    /\ \A e \in entries :
          /\ e.remaining_amount = e.allocated_amount - e.spent_amount
          /\ e.is_over_budget = (e.spent_amount > e.allocated_amount)
          /\ Percent(e.percentage_used, e.spent_amount, e.allocated_amount)
    /\ result.totals.allocated_amount = C11_Sum(entries, "allocated_amount")
    /\ result.totals.spent_amount = C11_Sum(entries, "spent_amount")

C11_PercentOfPositive(ratio, spent, allocated) ==
    IF allocated > 0 THEN C11_Is(ratio, spent * 100, allocated)
    ELSE C11_Is(ratio, 0, 1)

C11_PercentOfNonZero(ratio, spent, allocated) ==
    IF allocated # 0 THEN C11_Is(ratio, spent * 100, allocated)
    ELSE C11_Is(ratio, 0, 1)

C11_Reported(Percent(_, _, _)) ==
    (last.op = "get_budget_analysis" /\ last.outcome = "ok") =>
        /\ C11_Arithmetic(Val(last.result), Percent)
        /\ {[category_name |-> e.category_name,
             allocated_amount |-> e.allocated_amount] :
                e \in C11_Entries(Val(last.result))}
              = C11_Allocations(db, last.budget_id)

C11_AnalysisArithmetic == C11_Reported(C11_PercentOfPositive)

C11_Witness ==
    /\ last.op = "get_budget_analysis"
    /\ last.outcome = "ok"
    /\ Len(Val(last.result).categories) = 2
    /\ \E e \in C11_Entries(Val(last.result)) :
          /\ e.allocated_amount = 50000
          /\ e.spent_amount = 60000
          /\ e.remaining_amount = 0 - 10000
          /\ e.percentage_used = [num |-> 120, den |-> 1]
          /\ e.is_over_budget

(* C11 as stated: percentage_used is spent / allocated * 100 unless        *)
(* allocated is 0.                                                         *)
C11_PercentageUnlessZero == C11_Reported(C11_PercentOfNonZero)

(* C12: a transaction counts towards a category's spent amount exactly     *)
(* when it is an expense, its category is the allocated one, and its date  *)
(* falls in the budget's month of its year (monthly budget) or in the      *)
(* budget's year (yearly budget).                                          *)
C12_MonthOf(day) ==
    CHOOSE ym \in (2024..2026) \X (1..12) :
        /\ date(ym[1], ym[2], 1) <= day
        /\ day < date(ym[1], ym[2], 1) + DaysInMonth(ym[1], ym[2])

C12_InWindow(budget, t) ==
    LET ym == C12_MonthOf(DateOf(t.transaction_date)) IN
    IF budget.period_type = "monthly"
    THEN ym = <<budget.year, Val(budget.month)>>
    ELSE ym[1] = budget.year

C12_Counted(store, budget, category_name) ==
    {t \in store.transactions :
        /\ t.transaction_type = "expense"
        /\ \E c \in store.categories :
              c.id = t.category_id /\ c.name = category_name
        /\ C12_InWindow(budget, t)}

C12_SpentInWindow ==
    (last.op = "get_budget_analysis" /\ last.outcome = "ok") =>
        \A e \in C11_Entries(Val(last.result)) :
            \E budget \in db.budgets :
                /\ budget.id = last.budget_id
                /\ e.spent_amount
                      = C7_Sum(C12_Counted(db, budget, e.category_name))

C12_Witness ==
    /\ last.op = "get_budget_analysis"
    /\ last.outcome = "ok"
    /\ Val(last.result).budget.month = Some(12)
    /\ \E t \in db.transactions :
          t.transaction_type = "expense"
          /\ t.transaction_date = Midnight(date(2026, 1, 1))
    /\ \E e \in C11_Entries(Val(last.result)) :
          e.category_name = "food" /\ e.spent_amount = 100

(* C13: get_current_budget(year, month) returns an active budget whose     *)
(* year and month are the arguments, and none only when there is no such   *)
(* budget; with month none the budget returned is a yearly one.            *)
C13_Current(store, year, month) ==
    {b \in store.budgets :
        /\ b.is_active
        /\ b.year = year
        /\ b.month = month
        /\ month = None => b.period_type = "yearly"}

C13_CurrentBudgetExact ==
    last.op = "get_current_budget" =>
        IF last.result = None
        THEN C13_Current(db, last.year, last.month) = {}
        ELSE Val(last.result) \in C13_Current(db, last.year, last.month)

(* C15: create_investment stores the supplied current_value whenever one   *)
(* is supplied, a supplied zero included, stores initial_amount when none  *)
(* is supplied, and the new investment is active.                          *)
C15_SuppliedValueStored ==
    (last.op = "create_investment" /\ last.outcome = "ok") =>
        \E investment \in RowById(db.investments, last.id) :
            /\ investment.initial_amount = last.initial_amount
            /\ investment.current_value =
                   IF last.current_value = None THEN last.initial_amount
                   ELSE Val(last.current_value)
            /\ investment.is_active

(* C16: update_investment_value(id, v) on an existing investment sets its  *)
(* current_value to v and changes nothing else, neither its other fields   *)
(* nor any other investment; on an id that does not resolve it returns     *)
(* none and leaves the store and the session as they were.                 *)
C16_Revalued(investments, id, v) ==
    {IF i.id = id THEN [i EXCEPT !.current_value = v] ELSE i : i \in investments}

C16_Step ==
    /\ last'.op = "update_investment_value"
    /\ last'.fault = "none"

C16_OnlyCurrentValue ==
    IF last'.investment_id \in Ids(db.investments)
    THEN /\ last'.outcome = "ok"
         /\ db' = [db EXCEPT !.investments =
                       C16_Revalued(@, last'.investment_id, last'.current_value)]
    ELSE /\ last'.outcome = "None"
         /\ db' = db
         /\ session' = session

C16_UpdateValueFrame == [][C16_Step => C16_OnlyCurrentValue]_vars

C16_Witness ==
    /\ last.op = "update_investment_value"
    /\ last.outcome = "ok"
    /\ last.current_value = 150000
    /\ \E i \in db.investments :
          /\ i.id = last.investment_id
          /\ i.current_value = 150000
          /\ i.initial_amount = 100000
    /\ \E i \in db.investments :
          /\ i.id # last.investment_id
          /\ i.current_value = 120000

(* C17: get_portfolio_summary aggregates exactly the active investments:   *)
(* total_invested and current_value are their sums, total_return the       *)
(* difference, return_percentage = total_return / total_invested * 100     *)
(* when total_invested > 0 and 0 when total_invested <= 0, and the entries  *)
(* per type are the counts and sums of the active investments of the type. *)
RECURSIVE C17_Sum(_, _)
C17_Sum(rows, field) ==
    IF rows = {} THEN 0
    ELSE LET i == CHOOSE x \in rows : TRUE
         IN i[field] + C17_Sum(rows \ {i}, field)

C17_Active(store) == {i \in store.investments : i.is_active}

C17_OfType(store, type) == {i \in C17_Active(store) : i.investment_type = type}

C17_PercentOfPositive(ratio, return, invested) ==
    IF invested > 0 THEN C11_Is(ratio, return * 100, invested)
    ELSE C11_Is(ratio, 0, 1)

C17_PercentOfNonZero(ratio, return, invested) ==
    IF invested # 0 THEN C11_Is(ratio, return * 100, invested)
    ELSE C11_Is(ratio, 0, 1)

C17_Reported(Percent(_, _, _)) ==
    last.op = "get_portfolio_summary" =>
        LET r == last.result
            active == C17_Active(db)
            types == {r.by_type[k].type : k \in 1..Len(r.by_type)}
        IN /\ r.total_invested = C17_Sum(active, "initial_amount")
           /\ r.current_value = C17_Sum(active, "current_value")
           /\ r.total_return = r.current_value - r.total_invested
           /\ r.investments_count = Cardinality(active)
           /\ Percent(r.return_percentage, r.total_return, r.total_invested)
           /\ Cardinality(types) = Len(r.by_type)
           /\ types = {i.investment_type : i \in active}
           /\ \A k \in 1..Len(r.by_type) :
                 LET item == r.by_type[k]
                     of_type == C17_OfType(db, item.type)
                 IN /\ item.count = Cardinality(of_type)
                    /\ item.invested = C17_Sum(of_type, "initial_amount")
                    /\ item.current_value = C17_Sum(of_type, "current_value")
           /\ SumField(r.by_type, "count") = r.investments_count
           /\ SumField(r.by_type, "invested") = r.total_invested
           /\ SumField(r.by_type, "current_value") = r.current_value

C18_Descending(items) ==
    \A k \in 1..(Len(items) - 1) :
        ~Less(items[k].return_percentage, items[k + 1].return_percentage)

C18_Ids(items) == {items[k].id : k \in 1..Len(items)}

C18_TopAndWorst ==
    last.op = "get_portfolio_summary" =>
        LET r == last.result
            n == r.investments_count
        IN /\ C18_Descending(r.top_performers)
           /\ C18_Descending(r.worst_performers)
           /\ Len(r.top_performers) = Min(n, PerformersLimit)
           /\ Len(r.worst_performers) = Min(n, PerformersLimit)
           /\ n <= PerformersLimit =>
                 /\ C18_Ids(r.top_performers) = Ids(C17_Active(db))
                 /\ C18_Ids(r.worst_performers) = Ids(C17_Active(db))

(* C19: get_investment_performance fails with the not-found error on an    *)
(* id that does not resolve, and otherwise returns, without failing, an    *)
(* annualized_return of 0 whenever holding_days <= 0 or initial_amount     *)
(* <= 0.                                                                   *)
C19_AnnualizedGuarded ==
    last.op = "get_investment_performance" =>
        LET found == RowById(db.investments, last.investment_id) IN
        IF found = {} THEN last.outcome = "ValueError"
        ELSE \A investment \in found :
                (\/ last.today - DateOf(investment.purchase_date) <= 0
                 \/ investment.initial_amount <= 0)
                => /\ last.outcome = "ok"
                   /\ Val(last.result).annualized_return = Zero

(* C14: a failure inside a report is raised to the caller: a report whose  *)
(* transactions, budget, investments, trends or growth block fails does    *)
(* not return normally.                                                    *)
C14_FailuresRaised ==
    (/\ last.op \in {"generate_monthly_report", "generate_yearly_report"}
     /\ last.fault # "none")
    => last.outcome # "ok"

(* C20: the percentage change is 100 when old = 0 and new > 0, 0 when      *)
(* old = 0 and new <= 0, and (new - old) / old * 100 when old # 0, a       *)
(* negative old included.                                                  *)
C20_Change(result, old_value, new_value) ==
    IF old_value = 0
    THEN IF new_value > 0 THEN C11_Is(result, 100, 1) ELSE C11_Is(result, 0, 1)
    ELSE C11_Is(result, (new_value - old_value) * 100, old_value)

C20_AsStated(result, old_value, new_value) ==
    IF old_value = 0 /\ new_value > 0 THEN C11_Is(result, 100, 1)
    ELSE IF old_value = 0 /\ new_value = 0 THEN C11_Is(result, 0, 1)
    ELSE C11_Is(result, (new_value - old_value) * 100, old_value)

C20_Reported(Change(_, _, _)) ==
    /\ last.op = "calculate_percentage_change" =>
          Change(last.result, last.old_value, last.new_value)
    /\ (last.op = "generate_yearly_report" /\ last.outcome = "ok") =>
          LET growth == Val(Val(last.result).growth_analysis)
              old == growth.previous_year
              new == growth.current_year
          IN /\ Change(growth.growth_rates.income_growth,
                       old.income_total, new.income_total)
             /\ Change(growth.growth_rates.expense_growth,
                       old.expense_total, new.expense_total)
             /\ Change(growth.growth_rates.net_growth,
                       old.net_amount, new.net_amount)

C20_PercentageChange == C20_Reported(C20_Change)

C20_Witness ==
    /\ last.op = "calculate_percentage_change"
    /\ last.old_value = 20000
    /\ last.new_value = 15000
    /\ last.result = [num |-> 0 - 25, den |-> 1]

(* C20 as stated: old = 0 gives 0 only when new = 0, and every other pair, *)
(* old = 0 with a negative new included, gives (new - old) / old * 100.    *)
C20_FormulaOtherwise == C20_Reported(C20_AsStated)

(* C21: the buckets of a cash-flow report are contiguous and do not        *)
(* overlap: the first starts at start_date, each later one starts on the   *)
(* day after the previous period_end, a daily bucket spans 1 day, a weekly *)
(* bucket 7 days counted from start_date, and a monthly bucket after the   *)
(* first starts on the first day of a calendar month.                      *)
C21_CashFlow == Val(last.result).cash_flow

C21_Reported == last.op = "generate_cash_flow_report" /\ last.outcome = "ok"

C21_BucketsContiguous ==
    C21_Reported =>
        LET cf == C21_CashFlow IN
        /\ (cf = <<>>) = (last.start_date > last.end_date)
        /\ cf # <<>> =>
              /\ cf[1].period_start = last.start_date
              /\ cf[Len(cf)].period_start <= last.end_date
              /\ cf[Len(cf)].period_end >= last.end_date
        /\ \A k \in 2..Len(cf) : cf[k].period_start = cf[k - 1].period_end + 1
        /\ \A k \in 1..Len(cf) :
              CASE last.granularity = "daily" ->
                     cf[k].period_end = cf[k].period_start
                [] last.granularity = "weekly" ->
                     /\ cf[k].period_start = last.start_date + 7 * (k - 1)
                     /\ cf[k].period_end = cf[k].period_start + 6
                [] OTHER ->
                     /\ cf[k].period_start <= cf[k].period_end
                     /\ k > 1 => \E ym \in CalendarYears \X (1..12) :
                                    cf[k].period_start = date(ym[1], ym[2], 1)

C21_Witness ==
    /\ C21_Reported
    /\ last.granularity = "monthly"
    /\ last.start_date = date(2025, 12, 30)
    /\ Len(C21_CashFlow) = 2
    /\ C21_CashFlow[1].period_end = date(2025, 12, 31)
    /\ C21_CashFlow[2].period_start = date(2026, 1, 1)

(* C22: no bucket of a cash-flow report ends after end_date, and no        *)
(* transaction dated after end_date is counted in a bucket.                *)
C22_ClippedAtEnd ==
    C21_Reported =>
        LET cf == C21_CashFlow
            until == {t \in db.transactions :
                         /\ t.transaction_date >= Midnight(last.start_date)
                         /\ DateOf(t.transaction_date) <= last.end_date}
        IN /\ \A k \in 1..Len(cf) : cf[k].period_end <= last.end_date
           /\ SumField(cf, "transactions_count") <= Cardinality(until)

(* C23: in every bucket net_flow = income - expense, the running balance   *)
(* is the sum of the net flows so far, final_balance is the summary's      *)
(* net_flow, and a daily report over n days has n buckets.                 *)
C23_RunningBalance ==
    C21_Reported =>
        LET cf == C21_CashFlow
            summary == Val(last.result).summary
        IN /\ \A k \in 1..Len(cf) :
                 /\ cf[k].net_flow = cf[k].income - cf[k].expense
                 /\ cf[k].running_balance =
                        IF k = 1 THEN cf[1].net_flow
                        ELSE cf[k - 1].running_balance + cf[k].net_flow
           /\ summary.final_balance = summary.net_flow
           /\ summary.periods_count = Len(cf)
           /\ (last.granularity = "daily" /\ last.end_date >= last.start_date)
              => Len(cf) = last.end_date - last.start_date + 1

C23_Witness ==
    /\ C21_Reported
    /\ last.granularity = "daily"
    /\ Len(C21_CashFlow) = 10
    /\ C21_CashFlow[1].running_balance = 200
    /\ C21_CashFlow[9].running_balance = 200
    /\ C21_CashFlow[10].running_balance = 100
    /\ Val(last.result).summary.final_balance = 100

(* C24: a granularity other than daily, weekly or monthly fails with       *)
(* ValueError, whether or not the store can be read, and no other          *)
(* granularity does.                                                       *)
C24_GranularityValidatedFirst ==
    last.op = "generate_cash_flow_report" =>
        /\ last.granularity \notin Granularities =>
              (last.outcome = "ValueError" /\ last.result = None)
        /\ last.granularity \in Granularities => last.outcome # "ValueError"

C24_Witness ==
    /\ last.op = "generate_cash_flow_report"
    /\ last.granularity = "yearly"
    /\ last.fault = "transactions"
    /\ last.outcome = "ValueError"
    /\ db.transactions # {}

(* C29: the total income and total expense of a cash-flow report are the   *)
(* income and the expenses of the ledger dated from start_date to          *)
(* end_date, both days included at any time of day.                        *)
C29_Within(type) ==
    {t \in db.transactions :
        /\ t.transaction_type = type
        /\ last.start_date <= DateOf(t.transaction_date)
        /\ DateOf(t.transaction_date) <= last.end_date}

C29_TotalsOfRange ==
    C21_Reported =>
        /\ Val(last.result).summary.total_income = C7_Sum(C29_Within("income"))
        /\ Val(last.result).summary.total_expense = C7_Sum(C29_Within("expense"))

(* C25: a category report has an entry for every category with             *)
(* transactions in the range, and only for the filtered category when a    *)
(* filter is given; in each entry income and expense are the sums of the   *)
(* category's income and expenses, net_amount = income - expense,          *)
(* transactions_count counts those income and expense transactions, and    *)
(* average_transaction = (income + expense) / transactions_count.          *)
C25_InRange(name) ==
    join_category(db, filter_dates(db.transactions, Some(last.start_date),
                                   Some(last.end_date)), name)

C25_CategoryReport ==
    (last.op = "generate_category_report" /\ last.outcome = "ok") =>
        LET categories == Val(last.result).categories
            names == {categories[k].name : k \in 1..Len(categories)}
        IN /\ Cardinality(names) = Len(categories)
           /\ names = {c.name : c \in {c \in db.categories :
                          /\ C25_InRange(c.name) # {}
                          /\ last.category_name \in {None, Some(c.name)}}}
           /\ \A k \in 1..Len(categories) :
                 LET e == categories[k]
                     income == filter_type(C25_InRange(e.name), "income")
                     expense == filter_type(C25_InRange(e.name), "expense")
                 IN /\ e.income = C7_Sum(income)
                    /\ e.expense = C7_Sum(expense)
                    /\ e.net_amount = e.income - e.expense
                    /\ e.transactions_count = Cardinality(income \cup expense)
                    /\ e.transactions_count > 0 =>
                          C11_Is(e.average_transaction, e.income + e.expense,
                                 e.transactions_count)

(* C26: when a CLI command returns, on the success path and on every failure *)
(* path, the service it created has been closed exactly once and holds no    *)
(* session.                                                                  *)
C26_ClosedOnce ==
    (cli.pc = "returned" /\ cli.service) => (cli.closes = 1 /\ ~cli.open)

C27_Reported ==
    /\ last.op = "generate_monthly_report"
    /\ last.outcome = "ok"

C27_Trends == Val(last.result).trends

C27_Sign(change) == change.num * change.den

C27_Label(label, change) ==
    /\ label = "up" <=> C27_Sign(change) > 0
    /\ label = "down" <=> C27_Sign(change) < 0
    /\ label = "stable" <=> C27_Sign(change) = 0

(* C27: a monthly report compares the month with the calendar month before  *)
(* it, December of the year before for January; the changes are those of    *)
(* that month's totals to the reported month's, and each trend is up, down  *)
(* or stable exactly when its change is positive, negative or zero.         *)
C27_PrecedingMonth ==
    C27_Reported =>
        LET previous == C27_Trends.previous_month
            current == C27_Trends.current_month
            changes == C27_Trends.changes
        IN  /\ previous.month \in 1..12
            /\ 12 * previous.year + previous.month + 1 = 12 * last.year + last.month
            /\ previous.data \in month_summary(db, session, previous.year,
                                                previous.month)
            /\ current.data \in month_summary(db, session, last.year, last.month)
            /\ changes.income_change_percentage =
                   calculate_percentage_change(previous.data.income_total,
                                               current.data.income_total)
            /\ changes.expense_change_percentage =
                   calculate_percentage_change(previous.data.expense_total,
                                               current.data.expense_total)
            /\ C27_Label(changes.income_trend, changes.income_change_percentage)
            /\ C27_Label(changes.expense_trend, changes.expense_change_percentage)

(* The report of January 2025 compared with December 2024, expenses down   *)
(* and income up.                                                           *)
C27_Witness ==
    /\ C27_Reported
    /\ last.month = 1
    /\ C27_Trends.previous_month.year = 2024
    /\ C27_Trends.previous_month.data.expense_total > 0
    /\ C27_Trends.changes.expense_trend = "down"
    /\ C27_Trends.changes.income_trend = "up"

C28_Reported ==
    /\ last.op = "generate_yearly_report"
    /\ last.outcome = "ok"

C28_MonthsTotal(field) ==
    LET months == Val(last.result).monthly_breakdown
    IN SumSeq([i \in 1..Len(months) |-> months[i].data[field]])

(* The month entries whose date range holds the instant t. *)
C28_MonthsOf(t) ==
    {month \in 1..12 :
        /\ Midnight(date(last.year, month, 1)) <= t
        /\ t < Midnight(date(last.year, month, DaysInMonth(last.year, month)) + 1)}

(* C28: the twelve month entries of a yearly report partition the year:   *)
(* their income, expense and transaction counts add up to the annual      *)
(* summary's, and each month entry counts the transactions dated at any    *)
(* time of its days, the last day included.                               *)
C28_MonthsPartitionYear ==
    C28_Reported =>
        LET annual == Val(last.result).annual_summary
            months == Val(last.result).monthly_breakdown
        IN  /\ Len(months) = 12
            /\ C28_MonthsTotal("income_total") = annual.income_total
            /\ C28_MonthsTotal("expense_total") = annual.expense_total
            /\ C28_MonthsTotal("transactions_count") = annual.transactions_count
            /\ \A month \in 1..12 :
                   months[month].data.transactions_count =
                       Cardinality({t \in db.transactions :
                                       month \in C28_MonthsOf(t.transaction_date)})

(* C30: after any sequence of service operations every allocation refers  *)
(* to a stored budget and a stored category, and every transaction refers  *)
(* to a stored category and a stored account.                              *)
C30_ReferentialIntegrity ==
    /\ \A x \in db.budget_categories :
           /\ x.budget_id \in Ids(db.budgets)
           /\ x.category_id \in Ids(db.categories)
    /\ \A t \in db.transactions :
           /\ t.category_id \in Ids(db.categories)
           /\ t.account_id \in Ids(db.accounts)

(* add_budget_category with a budget_id that resolves to no budget has     *)
(* failed on a store that holds a budget with an allocation and a          *)
(* transaction.                                                            *)
C30_Witness ==
    /\ last.op = "add_budget_category"
    /\ last.budget_id \notin Ids(db.budgets)
    /\ last.fault = "none"
    /\ last.outcome = "IntegrityError"
    /\ db.budget_categories # {}
    /\ db.transactions # {}

====
